---- MODULE Spec2Model ----
(***************************************************************************)
(* Model of the solar-forecast alert / recovery state machine:             *)
(*   internal/domain/service.go      SolarForecastService.CheckAndAlert    *)
(*   internal/adapters/filestate.go  FileStateAdapter (alert_state.json)   *)
(*                                                                         *)
(* One CheckAndAlert cycle is one process run started by cron; cycles are  *)
(* serialized.  The wall clock advances between cycles.                    *)
(*                                                                         *)
(* Time values are records [day, hour].  Day 0 / hour 0 is Go's zero       *)
(* time.Time (0001-01-01), real days are 1, 2, ...                         *)
(* Power is kept exact in units of 1e-8 kW (KWScale) so that the product   *)
(* RatedCapacityKW * (GHI/1000) * InverterEfficiency * tempAdjustment is   *)
(* an integer.                                                             *)
(***************************************************************************)
EXTENDS Integers, Sequences, FiniteSets, TLC

----------------------------------------------------------------------------
(* Bounds of the model *)

\* the clock advances HourStep hours per tick, MaxTicks times at most
MaxTicks == 5
HourStep == 6
MaxSends == 2
\* the forecast analysis alone is given MaxSamples samples at most
MaxSamples == 5

----------------------------------------------------------------------------
(* Configuration (internal/config/loader.go defaults, test-mode overrides) *)

DaytimeStartHour == 6
DaytimeEndHour == 18
RatedCapacityKW == 5
InverterEfficiencyPct == 97
TempCoefficientTenths == 0 - 4
DaylightGHIThreshold == 50
DurationThresholdHours == 3
ProductionAlertThresholdKW == 2
TestModeThresholdKW == 5
TestModeDurationHours == 1
STCIrradiance == 1000
STCTemperature == 25
\* one kW in the unit of EstimatedOutputKW: kW * (GHI per STCIrradiance) * % * permille
KWScale == STCIrradiance * 100 * 1000

\* applyEnvOverrides: SOLAR_TEST_MODE=1 sets TestMode and lowers thresholds
Config(testMode) ==
    [ TestMode |-> testMode,
      ProductionAlertThreshold |->
          (IF testMode THEN TestModeThresholdKW ELSE ProductionAlertThresholdKW) * KWScale,
      DurationThresholdHours |->
          IF testMode THEN TestModeDurationHours ELSE DurationThresholdHours,
      DaylightGHIThreshold |-> DaylightGHIThreshold,
      DaytimeStartHour |-> DaytimeStartHour,
      DaytimeEndHour |-> DaytimeEndHour ]

----------------------------------------------------------------------------
(* time.Time *)

ZeroTime == [day |-> 0, hour |-> 0]

IsZero(t) == t = ZeroTime

\* time.Date(t.Year(), t.Month(), t.Day(), 0, 0, 0, 0, loc)
Midnight(t) == [day |-> t.day, hour |-> 0]

Before(a, b) == a.day < b.day \/ (a.day = b.day /\ a.hour < b.hour)

\* t.Format("2006-01-02"): the calendar date only, the hour is dropped
FormatDate(t) == t.day

\* time.ParseInLocation("2006-01-02", s, time.Local): midnight of that date
ParseDate(d) == [day |-> d, hour |-> 0]

----------------------------------------------------------------------------
(* Forecast analysis *)

\* Timestamps are counted in half hours from the midnight before the first
\* sample of the forecast (time.Parse("2006-01-02T15:04", ...) keeps the
\* minutes of what the provider sends).
TicksPerHour == 2

\* time.Time{}: 1 January of year 1, some 2025 years before the forecast
NoHour == 0 - (17750000 * TicksPerHour)

\* the largest time.Duration (1<<63 - 1 nanoseconds, 2562047.78 hours)
MaxDuration == 2562047 * TicksPerHour + 1

\* t.Sub(u): the difference, or the largest (smallest) Duration when the
\* difference does not fit
Sub(t, u) ==
    IF t - u > MaxDuration THEN MaxDuration
    ELSE IF t - u < 0 - MaxDuration THEN 0 - MaxDuration
    ELSE t - u

\* int(d.Hours()): the conversion to int drops the fraction
WholeHours(d) ==
    IF d >= 0 THEN d \div TicksPerHour ELSE 0 - ((0 - d) \div TicksPerHour)

\* calculateSolarProduction: EstimatedOutputKW, clamped at 0
calculateSolarProduction(hour) ==
    LET ghiFactor == hour.GHI
        tempAdjustment == 1000 + TempCoefficientTenths * (hour.Temperature - STCTemperature)
        raw == RatedCapacityKW * ghiFactor * InverterEfficiencyPct * tempAdjustment
    IN  [ Hour |-> hour.Hour,
          GHI |-> hour.GHI,
          Temperature |-> hour.Temperature,
          EstimatedOutputKW |-> IF raw < 0 THEN 0 ELSE raw ]

\* A variant of filterAnalysisWindow that drops a sample whose GHI equals the
\* threshold.
filterAnalysisWindow_Strict(hours, cfg) ==
    SelectSeq(hours, LAMBDA h : h.GHI > cfg.DaylightGHIThreshold)

\* filterAnalysisWindow: keep hours with GHI >= DaylightGHIThreshold
filterAnalysisWindow(hours, cfg) ==
    SelectSeq(hours, LAMBDA h : h.GHI >= cfg.DaylightGHIThreshold)

MapSeq(s, Op(_)) == [i \in 1..Len(s) |-> Op(s[i])]

ScanInit ==
    [ maxConsecutiveCount |-> 0,
      maxConsecutiveStart |-> NoHour,
      maxConsecutiveEnd |-> NoHour,
      maxConsecutiveHours |-> <<>>,
      recoveryHour |-> NoHour,
      maxStreakRecovered |-> FALSE,
      currentConsecutiveCount |-> 0,
      currentConsecutiveStart |-> NoHour,
      currentConsecutiveHours |-> <<>> ]

\* A variant of the loop body that takes any sample at or above the
\* threshold that ends the longest run as its recovery, daylight or not.
ScanStep_AnyRecovery(st, prod, cfg) ==
    IF prod.EstimatedOutputKW < cfg.ProductionAlertThreshold
    THEN LET start == IF st.currentConsecutiveCount = 0
                      THEN prod.Hour ELSE st.currentConsecutiveStart
             count == st.currentConsecutiveCount + 1
             hours == Append(st.currentConsecutiveHours, prod)
             cur == [st EXCEPT !.currentConsecutiveStart = start,
                               !.currentConsecutiveCount = count,
                               !.currentConsecutiveHours = hours]
         IN  IF count > st.maxConsecutiveCount
             THEN [cur EXCEPT !.maxConsecutiveCount = count,
                              !.maxConsecutiveStart = start,
                              !.maxConsecutiveEnd = prod.Hour,
                              !.maxConsecutiveHours = hours,
                              !.maxStreakRecovered = FALSE]
             ELSE cur
    ELSE LET rec == /\ st.currentConsecutiveCount > 0
                    /\ st.currentConsecutiveCount = st.maxConsecutiveCount
             st1 == IF rec THEN [st EXCEPT !.recoveryHour = prod.Hour,
                                           !.maxStreakRecovered = TRUE]
                    ELSE st
         IN  [st1 EXCEPT !.currentConsecutiveCount = 0,
                         !.currentConsecutiveHours = <<>>]

\* A variant of the loop body that replaces the longest run on a tie.
ScanStep_ReplaceOnTie(st, prod, cfg) ==
    IF prod.EstimatedOutputKW < cfg.ProductionAlertThreshold
    THEN LET start == IF st.currentConsecutiveCount = 0
                      THEN prod.Hour ELSE st.currentConsecutiveStart
             count == st.currentConsecutiveCount + 1
             hours == Append(st.currentConsecutiveHours, prod)
             cur == [st EXCEPT !.currentConsecutiveStart = start,
                               !.currentConsecutiveCount = count,
                               !.currentConsecutiveHours = hours]
         IN  IF count >= st.maxConsecutiveCount
             THEN [cur EXCEPT !.maxConsecutiveCount = count,
                              !.maxConsecutiveStart = start,
                              !.maxConsecutiveEnd = prod.Hour,
                              !.maxConsecutiveHours = hours,
                              !.maxStreakRecovered = FALSE]
             ELSE cur
    ELSE LET rec == /\ st.currentConsecutiveCount > 0
                    /\ st.currentConsecutiveCount = st.maxConsecutiveCount
                    /\ prod.GHI >= cfg.DaylightGHIThreshold
             st1 == IF rec THEN [st EXCEPT !.recoveryHour = prod.Hour,
                                           !.maxStreakRecovered = TRUE]
                    ELSE st
         IN  [st1 EXCEPT !.currentConsecutiveCount = 0,
                         !.currentConsecutiveHours = <<>>]

\* A variant of the loop body that takes a sample as the recovery only when
\* its GHI is above the daylight threshold.
ScanStep_StrictDaylight(st, prod, cfg) ==
    IF prod.EstimatedOutputKW < cfg.ProductionAlertThreshold
    THEN LET start == IF st.currentConsecutiveCount = 0
                      THEN prod.Hour ELSE st.currentConsecutiveStart
             count == st.currentConsecutiveCount + 1
             hours == Append(st.currentConsecutiveHours, prod)
             cur == [st EXCEPT !.currentConsecutiveStart = start,
                               !.currentConsecutiveCount = count,
                               !.currentConsecutiveHours = hours]
         IN  IF count > st.maxConsecutiveCount
             THEN [cur EXCEPT !.maxConsecutiveCount = count,
                              !.maxConsecutiveStart = start,
                              !.maxConsecutiveEnd = prod.Hour,
                              !.maxConsecutiveHours = hours,
                              !.maxStreakRecovered = FALSE]
             ELSE cur
    ELSE LET rec == /\ st.currentConsecutiveCount > 0
                    /\ st.currentConsecutiveCount = st.maxConsecutiveCount
                    /\ prod.GHI > cfg.DaylightGHIThreshold
             st1 == IF rec THEN [st EXCEPT !.recoveryHour = prod.Hour,
                                           !.maxStreakRecovered = TRUE]
                    ELSE st
         IN  [st1 EXCEPT !.currentConsecutiveCount = 0,
                         !.currentConsecutiveHours = <<>>]

\* one iteration of the loop of evaluateLowProductionDuration
ScanStep(st, prod, cfg) ==
    IF prod.EstimatedOutputKW < cfg.ProductionAlertThreshold
    THEN LET start == IF st.currentConsecutiveCount = 0
                      THEN prod.Hour ELSE st.currentConsecutiveStart
             count == st.currentConsecutiveCount + 1
             hours == Append(st.currentConsecutiveHours, prod)
             cur == [st EXCEPT !.currentConsecutiveStart = start,
                               !.currentConsecutiveCount = count,
                               !.currentConsecutiveHours = hours]
         IN  IF count > st.maxConsecutiveCount
             THEN [cur EXCEPT !.maxConsecutiveCount = count,
                              !.maxConsecutiveStart = start,
                              !.maxConsecutiveEnd = prod.Hour,
                              !.maxConsecutiveHours = hours,
                              !.maxStreakRecovered = FALSE]
             ELSE cur
    ELSE LET rec == /\ st.currentConsecutiveCount > 0
                    /\ st.currentConsecutiveCount = st.maxConsecutiveCount
                    /\ prod.GHI >= cfg.DaylightGHIThreshold
             st1 == IF rec THEN [st EXCEPT !.recoveryHour = prod.Hour,
                                           !.maxStreakRecovered = TRUE]
                    ELSE st
         IN  [st1 EXCEPT !.currentConsecutiveCount = 0,
                         !.currentConsecutiveHours = <<>>]

RECURSIVE ScanFrom(_, _, _, _)
ScanFrom(st, production, i, cfg) ==
    IF i > Len(production) THEN st
    ELSE ScanFrom(ScanStep(st, production[i], cfg), production, i + 1, cfg)

EmptyAnalysis ==
    [ LowProductionDurationTriggered |-> FALSE,
      AnyTriggered |-> FALSE,
      LowProductionHours |-> <<>>,
      AllProductionHours |-> <<>>,
      ConsecutiveHourCount |-> 0,
      FirstLowProductionHour |-> NoHour,
      LastLowProductionHour |-> NoHour,
      HasRecovery |-> FALSE,
      RecoveryHour |-> NoHour,
      HoursUntilRecovery |-> 0 ]

\* A variant of evaluateLowProductionDuration that asks for a run longer
\* than DurationThresholdHours.
evaluateLowProductionDuration_Longer(production, analysis, cfg) ==
    LET st == ScanFrom(ScanInit, production, 1, cfg)
    IN  IF st.maxConsecutiveCount > cfg.DurationThresholdHours
        THEN [analysis EXCEPT
                !.LowProductionDurationTriggered = TRUE,
                !.ConsecutiveHourCount = st.maxConsecutiveCount,
                !.FirstLowProductionHour = st.maxConsecutiveStart,
                !.LastLowProductionHour = st.maxConsecutiveEnd,
                !.LowProductionHours = st.maxConsecutiveHours,
                !.HasRecovery = st.maxStreakRecovered,
                !.RecoveryHour =
                    IF st.maxStreakRecovered THEN st.recoveryHour ELSE @,
                !.HoursUntilRecovery =
                    IF st.maxStreakRecovered
                    THEN WholeHours(Sub(st.recoveryHour, st.maxConsecutiveStart))
                    ELSE @]
        ELSE analysis

\* A variant of evaluateLowProductionDuration that reports the recovery it
\* recorded whether or not the run is long enough.
evaluateLowProductionDuration_RecoveryAnyway(production, analysis, cfg) ==
    LET st == ScanFrom(ScanInit, production, 1, cfg)
        a1 == [analysis EXCEPT
                 !.HasRecovery = st.maxStreakRecovered,
                 !.RecoveryHour =
                     IF st.maxStreakRecovered THEN st.recoveryHour ELSE @,
                 !.HoursUntilRecovery =
                     IF st.maxStreakRecovered
                     THEN WholeHours(Sub(st.recoveryHour, st.maxConsecutiveStart))
                    ELSE @]
    IN  IF st.maxConsecutiveCount >= cfg.DurationThresholdHours
        THEN [a1 EXCEPT
                !.LowProductionDurationTriggered = TRUE,
                !.ConsecutiveHourCount = st.maxConsecutiveCount,
                !.FirstLowProductionHour = st.maxConsecutiveStart,
                !.LastLowProductionHour = st.maxConsecutiveEnd,
                !.LowProductionHours = st.maxConsecutiveHours]
        ELSE a1

\* evaluateLowProductionDuration
evaluateLowProductionDuration(production, analysis, cfg) ==
    LET st == ScanFrom(ScanInit, production, 1, cfg)
    IN  IF st.maxConsecutiveCount >= cfg.DurationThresholdHours
        THEN [analysis EXCEPT
                !.LowProductionDurationTriggered = TRUE,
                !.ConsecutiveHourCount = st.maxConsecutiveCount,
                !.FirstLowProductionHour = st.maxConsecutiveStart,
                !.LastLowProductionHour = st.maxConsecutiveEnd,
                !.LowProductionHours = st.maxConsecutiveHours,
                !.HasRecovery = st.maxStreakRecovered,
                !.RecoveryHour =
                    IF st.maxStreakRecovered THEN st.recoveryHour ELSE @,
                !.HoursUntilRecovery =
                    IF st.maxStreakRecovered
                    THEN WholeHours(Sub(st.recoveryHour, st.maxConsecutiveStart))
                    ELSE @]
        ELSE analysis

RECURSIVE FirstRecoveryIndex(_, _, _, _)
FirstRecoveryIndex(prods, i, analysis, cfg) ==
    IF i > Len(prods) THEN 0
    ELSE IF /\ prods[i].Hour > analysis.LastLowProductionHour
            /\ prods[i].EstimatedOutputKW >= cfg.ProductionAlertThreshold
            /\ prods[i].GHI >= cfg.DaylightGHIThreshold
         THEN i
         ELSE FirstRecoveryIndex(prods, i + 1, analysis, cfg)

\* A variant of findRecoveryInExtendedForecast that counts the hours from
\* the end of the run.
findRecoveryInExtendedForecast_FromRunEnd(allDaylightProduction, analysis, cfg) ==
    LET i == FirstRecoveryIndex(allDaylightProduction, 1, analysis, cfg)
    IN  IF i = 0 THEN analysis
        ELSE [analysis EXCEPT
                !.HasRecovery = TRUE,
                !.RecoveryHour = allDaylightProduction[i].Hour,
                !.HoursUntilRecovery =
                    WholeHours(Sub(allDaylightProduction[i].Hour,
                                   analysis.LastLowProductionHour))]

\* findRecoveryInExtendedForecast
findRecoveryInExtendedForecast(allDaylightProduction, analysis, cfg) ==
    LET i == FirstRecoveryIndex(allDaylightProduction, 1, analysis, cfg)
    IN  IF i = 0 THEN analysis
        ELSE [analysis EXCEPT
                !.HasRecovery = TRUE,
                !.RecoveryHour = allDaylightProduction[i].Hour,
                !.HoursUntilRecovery =
                    WholeHours(Sub(allDaylightProduction[i].Hour,
                                   analysis.FirstLowProductionHour))]

\* A variant of analyzeForecast that estimates the production of the
\* daylight hours only and takes the result of the evaluation as it is.
analyzeForecast_WindowOnly(forecast, cfg) ==
    LET windowHours == filterAnalysisWindow(forecast, cfg)
        productionData == MapSeq(windowHours, calculateSolarProduction)
        a0 == [EmptyAnalysis EXCEPT !.AllProductionHours = productionData]
        a1 == evaluateLowProductionDuration(productionData, a0, cfg)
    IN  IF Len(windowHours) = 0 THEN a0
        ELSE IF ~a1.LowProductionDurationTriggered THEN a1
        ELSE IF ~a1.HasRecovery
             THEN findRecoveryInExtendedForecast(productionData, a1, cfg)
             ELSE a1

\* analyzeForecast
analyzeForecast(forecast, cfg) ==
    LET a0 == [EmptyAnalysis EXCEPT
                 !.AllProductionHours = MapSeq(forecast, calculateSolarProduction)]
        windowHours == filterAnalysisWindow(forecast, cfg)
        productionData == MapSeq(windowHours, calculateSolarProduction)
        a1 == evaluateLowProductionDuration(productionData, a0, cfg)
        a2 == [a1 EXCEPT !.AnyTriggered = a1.LowProductionDurationTriggered]
    IN  IF Len(windowHours) = 0 THEN a0
        ELSE IF ~a2.AnyTriggered THEN a2
        ELSE IF ~a2.HasRecovery /\ a2.LowProductionDurationTriggered
             THEN findRecoveryInExtendedForecast(
                      MapSeq(filterAnalysisWindow(forecast, cfg), calculateSolarProduction),
                      a2, cfg)
             ELSE a2

----------------------------------------------------------------------------
(* FileStateAdapter: the state file alert_state.json *)

\* the file does not exist
NoFile ==
    [ exists |-> FALSE, LastAlertDate |-> 0, AlertSent |-> FALSE,
      AlertRecovered |-> FALSE, RecoveryEmailSent |-> FALSE ]

\* domain.AlertState{}
EmptyState ==
    [ LastAlertDate |-> ZeroTime, AlertSent |-> FALSE,
      AlertRecovered |-> FALSE, RecoveryEmailSent |-> FALSE ]

\* A variant of GetLastAlertDate that never reports a recorded alert.
GetLastAlertDate_ForgetsFlag(f, readOK) ==
    IF ~f.exists THEN [state |-> EmptyState, err |-> FALSE]
    ELSE IF ~readOK THEN [state |-> EmptyState, err |-> TRUE]
    ELSE [ state |-> [ LastAlertDate |-> ParseDate(f.LastAlertDate),
                       AlertSent |-> FALSE,
                       AlertRecovered |-> f.AlertRecovered,
                       RecoveryEmailSent |-> f.RecoveryEmailSent ],
           err |-> FALSE ]

\* GetLastAlertDate; readOK = FALSE: os.ReadFile or json.Unmarshal fails
GetLastAlertDate(f, readOK) ==
    IF ~f.exists THEN [state |-> EmptyState, err |-> FALSE]
    ELSE IF ~readOK THEN [state |-> EmptyState, err |-> TRUE]
    ELSE [ state |-> [ LastAlertDate |-> ParseDate(f.LastAlertDate),
                       AlertSent |-> f.AlertSent,
                       AlertRecovered |-> f.AlertRecovered,
                       RecoveryEmailSent |-> f.RecoveryEmailSent ],
           err |-> FALSE ]

\* A variant of SaveAlertDate whose failed write still replaces the file.
SaveAlertDate_TornWrite(f, state, writeOK) ==
    [ file |-> [ exists |-> TRUE,
                 LastAlertDate |-> FormatDate(state.LastAlertDate),
                 AlertSent |-> state.AlertSent,
                 AlertRecovered |-> state.AlertRecovered,
                 RecoveryEmailSent |-> state.RecoveryEmailSent ],
      err |-> ~writeOK ]

\* SaveAlertDate; writeOK = FALSE: os.WriteFile fails, the file is not replaced
SaveAlertDate(f, state, writeOK) ==
    IF writeOK
    THEN [ file |-> [ exists |-> TRUE,
                      LastAlertDate |-> FormatDate(state.LastAlertDate),
                      AlertSent |-> state.AlertSent,
                      AlertRecovered |-> state.AlertRecovered,
                      RecoveryEmailSent |-> state.RecoveryEmailSent ],
           err |-> FALSE ]
    ELSE [file |-> f, err |-> TRUE]

\* A variant of ResetIfNewDay that never finds a new day.
ResetIfNewDay_NeverResets(f, t, out) ==
    LET r == GetLastAlertDate(f, out # "readfail")
    IN  IF r.err
        THEN [file |-> f, reset |-> FALSE, err |-> TRUE, faults |-> {"reset-read"}]
        ELSE [file |-> f, reset |-> FALSE, err |-> FALSE, faults |-> {}]

\* A variant of ResetIfNewDay that moves the date on and keeps the flags.
ResetIfNewDay_KeepsFlags(f, t, out) ==
    LET r == GetLastAlertDate(f, out # "readfail")
        today == Midnight(t)
    IN  IF r.err
        THEN [file |-> f, reset |-> FALSE, err |-> TRUE, faults |-> {"reset-read"}]
        ELSE IF /\ ~IsZero(r.state.LastAlertDate)
                /\ Before(Midnight(r.state.LastAlertDate), today)
             THEN LET resetState == [r.state EXCEPT !.LastAlertDate = t]
                      w == SaveAlertDate(f, resetState, out # "writefail")
                  IN  [ file |-> w.file, reset |-> ~w.err, err |-> w.err,
                        faults |-> IF w.err THEN {"reset-write"} ELSE {} ]
             ELSE [file |-> f, reset |-> FALSE, err |-> FALSE, faults |-> {}]

\* A variant of ResetIfNewDay that clears the alert and keeps the record of
\* the recovery notice.
ResetIfNewDay_KeepsRecovery(f, t, out) ==
    LET r == GetLastAlertDate(f, out # "readfail")
        today == Midnight(t)
    IN  IF r.err
        THEN [file |-> f, reset |-> FALSE, err |-> TRUE, faults |-> {"reset-read"}]
        ELSE IF /\ ~IsZero(r.state.LastAlertDate)
                /\ Before(Midnight(r.state.LastAlertDate), today)
             THEN LET resetState == [r.state EXCEPT !.LastAlertDate = t,
                                                    !.AlertSent = FALSE]
                      w == SaveAlertDate(f, resetState, out # "writefail")
                  IN  [ file |-> w.file, reset |-> ~w.err, err |-> w.err,
                        faults |-> IF w.err THEN {"reset-write"} ELSE {} ]
             ELSE [file |-> f, reset |-> FALSE, err |-> FALSE, faults |-> {}]

\* ResetIfNewDay.  faults: what went wrong with the file during the call
ResetIfNewDay(f, t, out) ==
    LET r == GetLastAlertDate(f, out # "readfail")
        today == Midnight(t)
    IN  IF r.err
        THEN [file |-> f, reset |-> FALSE, err |-> TRUE, faults |-> {"reset-read"}]
        ELSE IF /\ ~IsZero(r.state.LastAlertDate)
                /\ Before(Midnight(r.state.LastAlertDate), today)
             THEN LET resetState == [ LastAlertDate |-> t, AlertSent |-> FALSE,
                                      AlertRecovered |-> FALSE,
                                      RecoveryEmailSent |-> FALSE ]
                      w == SaveAlertDate(f, resetState, out # "writefail")
                  IN  [ file |-> w.file, reset |-> ~w.err, err |-> w.err,
                        faults |-> IF w.err THEN {"reset-write"} ELSE {} ]
             ELSE [file |-> f, reset |-> FALSE, err |-> FALSE, faults |-> {}]

\* A variant of MarkAlertSent that sets the flag and keeps the stored date.
MarkAlertSent_KeepsDate(f, t, out) ==
    LET r == GetLastAlertDate(f, out # "readfail")
        state == [r.state EXCEPT !.AlertSent = TRUE]
        w == SaveAlertDate(f, state, out # "writefail")
    IN  [ file |-> w.file, err |-> w.err,
          faults |-> (IF r.err THEN {"mark-read"} ELSE {})
                       \cup (IF w.err THEN {"mark-write"} ELSE {}) ]

\* A variant of MarkAlertSent that always saves the minimal state.
MarkAlertSent_Minimal(f, t, out) ==
    LET r == GetLastAlertDate(f, out # "readfail")
        state == [EmptyState EXCEPT !.LastAlertDate = t, !.AlertSent = TRUE]
        w == SaveAlertDate(f, state, out # "writefail")
    IN  [ file |-> w.file, err |-> w.err,
          faults |-> (IF r.err THEN {"mark-read"} ELSE {})
                       \cup (IF w.err THEN {"mark-write"} ELSE {}) ]

\* MarkAlertSent: a read error is logged and replaced by the empty state
MarkAlertSent(f, t, out) ==
    LET r == GetLastAlertDate(f, out # "readfail")
        state == [r.state EXCEPT !.LastAlertDate = t, !.AlertSent = TRUE]
        w == SaveAlertDate(f, state, out # "writefail")
    IN  [ file |-> w.file, err |-> w.err,
          faults |-> (IF r.err THEN {"mark-read"} ELSE {})
                       \cup (IF w.err THEN {"mark-write"} ELSE {}) ]

\* A variant of ShouldSendRecoveryEmail that does not ask for a sent alert.
ShouldSendRecoveryEmail_IgnoresAlert(f, out) ==
    LET r == GetLastAlertDate(f, out # "readfail")
    IN  IF r.err THEN [send |-> FALSE, err |-> TRUE, faults |-> {"check-read"}]
        ELSE [ send |-> ~r.state.RecoveryEmailSent,
               err |-> FALSE, faults |-> {} ]

\* A variant of ShouldSendRecoveryEmail that answers "no" on a read error.
ShouldSendRecoveryEmail_FailOpen(f, out) ==
    LET r == GetLastAlertDate(f, out # "readfail")
    IN  IF r.err THEN [send |-> FALSE, err |-> FALSE, faults |-> {"check-read"}]
        ELSE [ send |-> r.state.AlertSent /\ ~r.state.RecoveryEmailSent,
               err |-> FALSE, faults |-> {} ]

\* ShouldSendRecoveryEmail
ShouldSendRecoveryEmail(f, out) ==
    LET r == GetLastAlertDate(f, out # "readfail")
    IN  IF r.err THEN [send |-> FALSE, err |-> TRUE, faults |-> {"check-read"}]
        ELSE [ send |-> r.state.AlertSent /\ ~r.state.RecoveryEmailSent,
               err |-> FALSE, faults |-> {} ]

\* A variant of MarkRecoveryEmailSent that saves a fresh state with the flag.
MarkRecoveryEmailSent_Fresh(f, out) ==
    LET r == GetLastAlertDate(f, out # "readfail")
    IN  IF r.err
        THEN [file |-> f, err |-> TRUE, faults |-> {"mark-read"}]
        ELSE LET state == [EmptyState EXCEPT !.RecoveryEmailSent = TRUE]
                 w == SaveAlertDate(f, state, out # "writefail")
             IN  [ file |-> w.file, err |-> w.err,
                   faults |-> IF w.err THEN {"mark-write"} ELSE {} ]

\* A variant of MarkRecoveryEmailSent that also records the conditions as
\* recovered.
MarkRecoveryEmailSent_SetsRecovered(f, out) ==
    LET r == GetLastAlertDate(f, out # "readfail")
    IN  IF r.err
        THEN [file |-> f, err |-> TRUE, faults |-> {"mark-read"}]
        ELSE LET state == [r.state EXCEPT !.RecoveryEmailSent = TRUE,
                                          !.AlertRecovered = TRUE]
                 w == SaveAlertDate(f, state, out # "writefail")
             IN  [ file |-> w.file, err |-> w.err,
                   faults |-> IF w.err THEN {"mark-write"} ELSE {} ]

\* MarkRecoveryEmailSent
MarkRecoveryEmailSent(f, out) ==
    LET r == GetLastAlertDate(f, out # "readfail")
    IN  IF r.err
        THEN [file |-> f, err |-> TRUE, faults |-> {"mark-read"}]
        ELSE LET state == [r.state EXCEPT !.RecoveryEmailSent = TRUE]
                 w == SaveAlertDate(f, state, out # "writefail")
             IN  [ file |-> w.file, err |-> w.err,
                   faults |-> IF w.err THEN {"mark-write"} ELSE {} ]

----------------------------------------------------------------------------
(* The environment of one cycle *)

\* a forecast: hourly samples at consecutive hours, one letter per sample:
\* L daylight with low output, H daylight with high output, N night
Sample(kind, h) ==
    [ Hour |-> h * TicksPerHour,
      Temperature |-> STCTemperature,
      GHI |-> CASE kind = "L" -> 200 [] kind = "H" -> 800 [] OTHER -> 0 ]

Forecast(kinds) == [i \in 1..Len(kinds) |-> Sample(kinds[i], i - 1)]

Forecasts ==
    { Forecast(<<"L", "L", "L">>), Forecast(<<"L", "L", "H">>),
      Forecast(<<"N", "N", "N">>) }

StoreOutcomes == {"ok", "readfail", "writefail"}

PushOutcomes == {"nil", "ok", "chartfail", "sendfail"}

\* the answers the environment gives to the calls of one cycle
AllInputs ==
    [ testMode : BOOLEAN,
      fetchOK : BOOLEAN,
      forecast : Forecasts,
      resetOut : StoreOutcomes,
      checkOut : {"ok", "readfail"},
      markOut : StoreOutcomes,
      mailOK : BOOLEAN,
      push : PushOutcomes ]

\* The answer to a call that the cycle cannot reach is immaterial and is
\* fixed: nothing follows a failed fetch, a failed state check or a failed
\* mail, so one representative of each such family of answers is kept (a
\* store and a push notifier that would have worked).
Unreached(in) ==
    [in EXCEPT !.markOut = "ok", !.push = "ok"]

Inputs ==
    { answers : answers \in
        { in \in AllInputs :
            /\ ~in.fetchOK =>
                  /\ in.forecast = Forecast(<<"N", "N", "N">>)
                  /\ in.checkOut = "ok" /\ in.mailOK
            /\ (~in.fetchOK \/ in.checkOut = "readfail" \/ ~in.mailOK) =>
                  in = Unreached(in)
            /\ in.checkOut = "readfail" => in.mailOK } }

----------------------------------------------------------------------------
(* SolarForecastService *)

\* A variant of shouldSendAlert without the daytime check.
shouldSendAlert_NoDaytimeCheck(f, t, cfg, out) ==
    LET r == GetLastAlertDate(f, out # "readfail")
        today == Midnight(t)
    IN  IF r.err
        THEN [send |-> FALSE, err |-> TRUE, read |-> TRUE, faults |-> {"check-read"}]
        ELSE IF /\ r.state.AlertSent
                /\ ~IsZero(r.state.LastAlertDate)
                /\ Midnight(r.state.LastAlertDate) = today
             THEN [send |-> FALSE, err |-> FALSE, read |-> TRUE, faults |-> {}]
             ELSE [send |-> TRUE, err |-> FALSE, read |-> TRUE, faults |-> {}]

\* A variant of shouldSendAlert that allows a new alert once the recovery
\* notice of today's alert has been sent.
shouldSendAlert_UnlessRecovered(f, t, cfg, out) ==
    IF ~cfg.TestMode /\ (t.hour < cfg.DaytimeStartHour \/ t.hour >= cfg.DaytimeEndHour)
    THEN [send |-> FALSE, err |-> FALSE, read |-> FALSE, faults |-> {}]
    ELSE LET r == GetLastAlertDate(f, out # "readfail")
             today == Midnight(t)
         IN  IF r.err
             THEN [send |-> FALSE, err |-> TRUE, read |-> TRUE, faults |-> {"check-read"}]
             ELSE IF /\ r.state.AlertSent
                     /\ ~r.state.RecoveryEmailSent
                     /\ ~IsZero(r.state.LastAlertDate)
                     /\ Midnight(r.state.LastAlertDate) = today
                  THEN [send |-> FALSE, err |-> FALSE, read |-> TRUE, faults |-> {}]
                  ELSE [send |-> TRUE, err |-> FALSE, read |-> TRUE, faults |-> {}]

\* A variant of shouldSendAlert that skips an alert recorded before today
\* instead of one recorded today.
shouldSendAlert_BeforeToday(f, t, cfg, out) ==
    IF ~cfg.TestMode /\ (t.hour < cfg.DaytimeStartHour \/ t.hour >= cfg.DaytimeEndHour)
    THEN [send |-> FALSE, err |-> FALSE, read |-> FALSE, faults |-> {}]
    ELSE LET r == GetLastAlertDate(f, out # "readfail")
             today == Midnight(t)
         IN  IF r.err
             THEN [send |-> FALSE, err |-> TRUE, read |-> TRUE, faults |-> {"check-read"}]
             ELSE IF /\ r.state.AlertSent
                     /\ ~IsZero(r.state.LastAlertDate)
                     /\ Before(Midnight(r.state.LastAlertDate), today)
                  THEN [send |-> FALSE, err |-> FALSE, read |-> TRUE, faults |-> {}]
                  ELSE [send |-> TRUE, err |-> FALSE, read |-> TRUE, faults |-> {}]

\* shouldSendAlert; read = TRUE when GetLastAlertDate was called
shouldSendAlert(f, t, cfg, out) ==
    IF ~cfg.TestMode /\ (t.hour < cfg.DaytimeStartHour \/ t.hour >= cfg.DaytimeEndHour)
    THEN [send |-> FALSE, err |-> FALSE, read |-> FALSE, faults |-> {}]
    ELSE LET r == GetLastAlertDate(f, out # "readfail")
             today == Midnight(t)
         IN  IF r.err
             THEN [send |-> FALSE, err |-> TRUE, read |-> TRUE, faults |-> {"check-read"}]
             ELSE IF /\ r.state.AlertSent
                     /\ ~IsZero(r.state.LastAlertDate)
                     /\ Midnight(r.state.LastAlertDate) = today
                  THEN [send |-> FALSE, err |-> FALSE, read |-> TRUE, faults |-> {}]
                  ELSE [send |-> TRUE, err |-> FALSE, read |-> TRUE, faults |-> {}]

\* the result of one cycle: the file it leaves, the collaborator calls it
\* made in order, the error it returned ("nil" for success) and the faults
\* of the collaborators it met
Outcome(f, calls, err, faults) ==
    [file |-> f, calls |-> calls, err |-> err, faults |-> faults]

\* A variant of RecoveryBranch that records the recovery notice as sent
\* whether or not SendRecoveryEmail succeeded.
RecoveryBranch_MarkAnyway(f, in, calls, faults) ==
    LET should == ShouldSendRecoveryEmail(f, in.checkOut)
        c1 == Append(calls, "ShouldSendRecoveryEmail")
        fl == faults \cup should.faults
    IN  IF should.err THEN Outcome(f, c1, "check", fl)
        ELSE IF ~should.send THEN Outcome(f, c1, "nil", fl)
        ELSE LET c2 == Append(c1, "SendRecoveryEmail")
                 mark == MarkRecoveryEmailSent(f, in.markOut)
             IN  Outcome(mark.file, Append(c2, "MarkRecoveryEmailSent"),
                         IF ~in.mailOK THEN "send"
                         ELSE IF mark.err THEN "mark" ELSE "nil",
                         fl \cup mark.faults
                            \cup (IF in.mailOK THEN {} ELSE {"mail"}))

\* CheckAndAlert lines 72-104: no criteria triggered
RecoveryBranch(f, in, calls, faults) ==
    LET should == ShouldSendRecoveryEmail(f, in.checkOut)
        c1 == Append(calls, "ShouldSendRecoveryEmail")
        fl == faults \cup should.faults
    IN  IF should.err THEN Outcome(f, c1, "check", fl)
        ELSE IF ~should.send THEN Outcome(f, c1, "nil", fl)
        ELSE LET c2 == Append(c1, "SendRecoveryEmail")
                 mark == MarkRecoveryEmailSent(f, in.markOut)
             IN  IF ~in.mailOK THEN Outcome(f, c2, "send", fl \cup {"mail"})
                 ELSE Outcome(mark.file, Append(c2, "MarkRecoveryEmailSent"),
                              IF mark.err THEN "mark" ELSE "nil",
                              fl \cup mark.faults)

\* CheckAndAlert lines 124-158: the push notification, never fatal
PushCalls(in) ==
    IF in.push = "nil" THEN <<>>
    ELSE <<"GenerateChartImage", "SendNotification">>

\* A variant of AlertBranch that goes on to the push notification after a
\* failed SendAlert.
AlertBranch_PushAnyway(f, t, cfg, in, calls, faults) ==
    LET should == shouldSendAlert(f, t, cfg, in.checkOut)
        c1 == IF should.read THEN Append(calls, "GetLastAlertDate") ELSE calls
        fl == faults \cup should.faults
    IN  IF should.err THEN Outcome(f, c1, "check", fl)
        ELSE IF ~should.send THEN Outcome(f, c1, "nil", fl)
        ELSE LET c2 == Append(c1, "SendAlert")
                 mark == MarkAlertSent(f, t, in.markOut)
             IN  IF ~in.mailOK
                 THEN Outcome(f, c2 \o PushCalls(in), "send", fl \cup {"mail"})
                 ELSE Outcome(mark.file,
                              Append(c2 \o PushCalls(in), "MarkAlertSent"),
                              IF mark.err THEN "mark" ELSE "nil",
                              fl \cup mark.faults)

\* A variant of AlertBranch that returns the error of a failed push
\* notification.
AlertBranch_PushFatal(f, t, cfg, in, calls, faults) ==
    LET should == shouldSendAlert(f, t, cfg, in.checkOut)
        c1 == IF should.read THEN Append(calls, "GetLastAlertDate") ELSE calls
        fl == faults \cup should.faults
    IN  IF should.err THEN Outcome(f, c1, "check", fl)
        ELSE IF ~should.send THEN Outcome(f, c1, "nil", fl)
        ELSE LET c2 == Append(c1, "SendAlert")
                 mark == MarkAlertSent(f, t, in.markOut)
             IN  IF ~in.mailOK THEN Outcome(f, c2, "send", fl \cup {"mail"})
                 ELSE IF in.push \in {"chartfail", "sendfail"}
                 THEN Outcome(f, c2 \o PushCalls(in), "push", fl)
                 ELSE Outcome(mark.file,
                              Append(c2 \o PushCalls(in), "MarkAlertSent"),
                              IF mark.err THEN "mark" ELSE "nil",
                              fl \cup mark.faults)

\* CheckAndAlert lines 106-167: criteria triggered
AlertBranch(f, t, cfg, in, calls, faults) ==
    LET should == shouldSendAlert(f, t, cfg, in.checkOut)
        c1 == IF should.read THEN Append(calls, "GetLastAlertDate") ELSE calls
        fl == faults \cup should.faults
    IN  IF should.err THEN Outcome(f, c1, "check", fl)
        ELSE IF ~should.send THEN Outcome(f, c1, "nil", fl)
        ELSE LET c2 == Append(c1, "SendAlert")
                 mark == MarkAlertSent(f, t, in.markOut)
             IN  IF ~in.mailOK THEN Outcome(f, c2, "send", fl \cup {"mail"})
                 ELSE Outcome(mark.file,
                              Append(c2 \o PushCalls(in), "MarkAlertSent"),
                              IF mark.err THEN "mark" ELSE "nil",
                              fl \cup mark.faults)

\* the analyses of the forecasts the weather provider can return, per mode
Analyses ==
    [fc \in Forecasts |-> [tm \in BOOLEAN |-> analyzeForecast(fc, Config(tm))]]

\* A variant of CheckAndAlert that carries on with an empty forecast when
\* the fetch fails.
CheckAndAlert_IgnoresFetchError(f, t, in) ==
    LET cfg == Config(in.testMode)
        rs == ResetIfNewDay(f, t, in.resetOut)
        c0 == <<"ResetIfNewDay", "GetForecast">>
        analysis == Analyses[in.forecast][in.testMode]
        o == IF ~in.fetchOK \/ ~analysis.AnyTriggered
             THEN RecoveryBranch(rs.file, in, c0, rs.faults)
             ELSE AlertBranch(rs.file, t, cfg, in, c0, rs.faults)
    IN  [ file |-> o.file, calls |-> o.calls,
          err |-> IF ~in.fetchOK THEN "fetch" ELSE o.err, faults |-> o.faults,
          mid |-> rs.file, resetErr |-> rs.err,
          fetched |-> in.fetchOK,
          push |-> IF \E i \in 1..Len(o.calls) : o.calls[i] = "SendNotification"
                   THEN in.push ELSE "nil",
          triggered |-> in.fetchOK /\ analysis.AnyTriggered ]

\* A variant of CheckAndAlert that returns when ResetIfNewDay fails.
CheckAndAlert_StopsOnResetError(f, t, in) ==
    LET cfg == Config(in.testMode)
        rs == ResetIfNewDay(f, t, in.resetOut)
        c0 == <<"ResetIfNewDay", "GetForecast">>
        analysis == Analyses[in.forecast][in.testMode]
        o == IF rs.err
             THEN Outcome(rs.file, <<"ResetIfNewDay">>, "reset", rs.faults)
             ELSE IF ~in.fetchOK
             THEN Outcome(rs.file, c0, "fetch", rs.faults)
             ELSE IF ~analysis.AnyTriggered
                  THEN RecoveryBranch(rs.file, in, c0, rs.faults)
                  ELSE AlertBranch(rs.file, t, cfg, in, c0, rs.faults)
    IN  [ file |-> o.file, calls |-> o.calls, err |-> o.err, faults |-> o.faults,
          mid |-> rs.file, resetErr |-> rs.err,
          fetched |-> in.fetchOK,
          push |-> IF \E i \in 1..Len(o.calls) : o.calls[i] = "SendNotification"
                   THEN in.push ELSE "nil",
          triggered |-> in.fetchOK /\ analysis.AnyTriggered ]

\* CheckAndAlert: one whole cycle at time t with the environment's answers in.
\* Besides the outcome, the result records what the cycle went through: the
\* file after ResetIfNewDay (mid), whether ResetIfNewDay failed, whether the
\* forecast was fetched and whether the analysis triggered.
CheckAndAlert(f, t, in) ==
    LET cfg == Config(in.testMode)
        rs == ResetIfNewDay(f, t, in.resetOut)
        c0 == <<"ResetIfNewDay", "GetForecast">>
        analysis == Analyses[in.forecast][in.testMode]
        o == IF ~in.fetchOK
             THEN Outcome(rs.file, c0, "fetch", rs.faults)
             ELSE IF ~analysis.AnyTriggered
                  THEN RecoveryBranch(rs.file, in, c0, rs.faults)
                  ELSE AlertBranch(rs.file, t, cfg, in, c0, rs.faults)
    IN  [ file |-> o.file, calls |-> o.calls, err |-> o.err, faults |-> o.faults,
          mid |-> rs.file, resetErr |-> rs.err,
          fetched |-> in.fetchOK,
          push |-> IF \E i \in 1..Len(o.calls) : o.calls[i] = "SendNotification"
                   THEN in.push ELSE "nil",
          triggered |-> in.fetchOK /\ analysis.AnyTriggered ]

----------------------------------------------------------------------------
(* State *)

VARIABLES
    file,             \* the content of alert_state.json
    now,              \* the wall clock, [day, hour]
    last,             \* what the most recent cycle saw and did
    prev,             \* what failed in the cycle before it, if on the same day
    alertsToday,      \* successful SendAlert calls on the current day
    recoveriesToday,  \* successful SendRecoveryEmail calls on the current day
    storeFailedToday, \* a ResetIfNewDay / Mark... call returned an error today
    pending,          \* the day of the delivered alert that no cycle without
                      \* triggered criteria has followed yet, 0 when none
    deferred,         \* a triggered cycle was stopped by the daytime check and
                      \* no triggered cycle has passed that check since
    proc,             \* overlapping cycles: each process's position and locals
    race,             \* overlapping cycles: what has happened among them
    input,            \* forecast analysis alone: the samples and configuration
    computed,         \* forecast analysis alone: the AlertAnalysis computed
    fetch             \* forecast fetch alone: the adapter and its GetForecast call

vars == <<file, now, last, prev, alertsToday, recoveriesToday, storeFailedToday,
          pending, deferred, proc, race, input, computed, fetch>>

\* what a run of serialized cycles records
cycleVars == <<last, prev, storeFailedToday, pending, deferred>>
\* what a run of overlapping cycles records
raceVars == <<proc, race>>
\* what a run of the forecast analysis records
detectVars == <<input, computed>>
\* what a run of the forecast fetch records
fetchVars == <<fetch>>

Processes == {1, 2}

\* a process that has not started its cycle
NoProcess ==
    [ pc |-> "idle", state |-> EmptyState, triggered |-> FALSE, early |-> FALSE ]

NoRace == [ marked |-> FALSE, overlapped |-> FALSE ]

NoInput == [ kind |-> "none", samples |-> <<>>, testMode |-> FALSE ]

NoAnalysis == [ done |-> FALSE, result |-> EmptyAnalysis ]

\* no adapter has been asked for a forecast
NoFetch ==
    [ pc |-> "none", retryAttempts |-> 0, retryDelay |-> 0, attempt |-> 0,
      lastErr |-> "nil", result |-> "none", outcomes |-> <<>>, waits |-> <<>>,
      ctx |-> [ done |-> FALSE, at |-> "none", tried |-> 0 ] ]

NoCycle ==
    [ ran |-> FALSE, at |-> ZeroTime, testMode |-> FALSE, pre |-> NoFile,
      pend |-> 0, defer |-> FALSE,
      out |-> [ file |-> NoFile, calls |-> <<>>, err |-> "nil", faults |-> {},
                mid |-> NoFile, resetErr |-> FALSE,
                fetched |-> FALSE, push |-> "nil", triggered |-> FALSE ] ]

Init ==
    /\ file = NoFile
    /\ now = [day |-> 1, hour |-> 0]
    /\ last = NoCycle
    /\ prev = "none"
    /\ alertsToday = 0
    /\ recoveriesToday = 0
    /\ storeFailedToday = FALSE
    /\ pending = 0
    /\ deferred = FALSE
    /\ proc = [p \in Processes |-> NoProcess]
    /\ race = NoRace
    /\ input = NoInput
    /\ computed = NoAnalysis
    /\ fetch = NoFetch

Called(calls, name) == \E i \in 1..Len(calls) : calls[i] = name

\* SendAlert / SendRecoveryEmail returned nil in the cycle
AlertDelivered(out) == Called(out.calls, "SendAlert") /\ "mail" \notin out.faults
RecoveryDelivered(out) ==
    Called(out.calls, "SendRecoveryEmail") /\ "mail" \notin out.faults

\* the daytime check of shouldSendAlert at time t
PassesDaytimeCheck(testMode, t) ==
    testMode \/ (t.hour >= DaytimeStartHour /\ t.hour < DaytimeEndHour)

\* every collaborator of the cycle answered without error
Clean(out) ==
    out.fetched /\ out.err = "nil" /\ out.faults = {} /\ ~out.resetErr

\* What made cycle l return an error after it attempted a notification,
\* seen from a cycle at time t: "none" when l ran on another day or met a
\* fault of the state file before the notification.
Failure(l, t) ==
    IF ~l.ran \/ l.at.day # t.day \/ l.out.resetErr \/ "check-read" \in l.out.faults
    THEN "none"
    ELSE IF "mail" \in l.out.faults
    THEN (IF Called(l.out.calls, "SendAlert") THEN "SendAlert" ELSE "SendRecoveryEmail")
    ELSE IF l.out.err = "mark"
    THEN (IF Called(l.out.calls, "MarkAlertSent")
          THEN "MarkAlertSent" ELSE "MarkRecoveryEmailSent")
    ELSE "none"

\* A fault is offered only to a call it can affect: a missing file cannot
\* fail to be read, and ResetIfNewDay writes only over a file of an earlier day.
Offered(in) ==
    /\ ~file.exists => (in.resetOut = "ok" /\ in.checkOut = "ok" /\ in.markOut # "readfail")
    /\ in.resetOut = "writefail" => file.LastAlertDate < now.day

\* cron starts the program: one CheckAndAlert cycle
Cycle ==
    /\ alertsToday < MaxSends
    /\ recoveriesToday < MaxSends
    /\ \E in \in Inputs :
         /\ Offered(in)
         /\ \E out \in {CheckAndAlert(file, now, in)} :
             /\ file' = out.file
             /\ last' = [ ran |-> TRUE, at |-> now, testMode |-> in.testMode,
                          pre |-> file, pend |-> pending,
                          defer |-> deferred, out |-> out ]
             /\ alertsToday' = alertsToday + (IF AlertDelivered(out) THEN 1 ELSE 0)
             /\ recoveriesToday' =
                    recoveriesToday + (IF RecoveryDelivered(out) THEN 1 ELSE 0)
             /\ storeFailedToday' =
                    (storeFailedToday \/ out.resetErr \/ out.err = "mark")
             /\ pending' = IF ~Clean(out) THEN 0
                           ELSE IF AlertDelivered(out) THEN now.day
                           ELSE IF ~out.triggered THEN 0
                           ELSE pending
             /\ deferred' =
                    IF ~out.triggered THEN deferred
                    ELSE IF PassesDaytimeCheck(in.testMode, now) THEN FALSE
                    ELSE IF out.file.exists /\ out.file.AlertSent
                            /\ out.file.LastAlertDate = now.day
                    THEN deferred
                    ELSE TRUE
    /\ prev' = Failure(last, now)
    /\ UNCHANGED <<now, raceVars, detectVars, fetchVars>>

\* time passes between two cycles
Tick ==
    LET h == now.hour + HourStep
        newDay == h >= 24
    IN  /\ (now.day - 1) * 24 + h <= MaxTicks * HourStep
        /\ now' = IF newDay THEN [day |-> now.day + 1, hour |-> h - 24]
                  ELSE [day |-> now.day, hour |-> h]
        /\ alertsToday' = IF newDay THEN 0 ELSE alertsToday
        /\ recoveriesToday' = IF newDay THEN 0 ELSE recoveriesToday
        /\ storeFailedToday' = IF newDay THEN FALSE ELSE storeFailedToday
        /\ UNCHANGED <<file, last, prev, pending, deferred, raceVars, detectVars, fetchVars>>

Next == Cycle \/ Tick

Spec == Init /\ [][Next]_vars

TypeOK ==
    /\ file.exists \in BOOLEAN
    /\ now.day >= 1 /\ now.hour \in 0..23
    /\ alertsToday \in 0..MaxSends
    /\ recoveriesToday \in 0..MaxSends
    /\ prev \in {"none", "SendAlert", "SendRecoveryEmail",
                 "MarkAlertSent", "MarkRecoveryEmailSent"}
    /\ pending \in 0..now.day
    /\ deferred \in BOOLEAN

----------------------------------------------------------------------------
(* Overlapping cycles: two runs of the program at once, outside test mode, *)
(* every collaborator answering.  A step is one call of a collaborator or  *)
(* one read or write of the state file.                                    *)

\* the moment of the overlapping runs: inside the daytime window
RaceNow == [day |-> 2, hour |-> 12]

\* the state file the runs find: none, today's without an alert, today's
\* with an alert and no recovery notice, yesterday's with an alert
RaceFiles ==
    { NoFile,
      [ exists |-> TRUE, LastAlertDate |-> RaceNow.day, AlertSent |-> FALSE,
        AlertRecovered |-> FALSE, RecoveryEmailSent |-> FALSE ],
      [ exists |-> TRUE, LastAlertDate |-> RaceNow.day, AlertSent |-> TRUE,
        AlertRecovered |-> FALSE, RecoveryEmailSent |-> FALSE ],
      [ exists |-> TRUE, LastAlertDate |-> RaceNow.day - 1, AlertSent |-> TRUE,
        AlertRecovered |-> FALSE, RecoveryEmailSent |-> FALSE ] }

InitRace ==
    /\ file \in RaceFiles
    /\ now = RaceNow
    /\ last = NoCycle
    /\ prev = "none"
    /\ alertsToday = 0
    /\ recoveriesToday = 0
    /\ storeFailedToday = FALSE
    /\ pending = 0
    /\ deferred = FALSE
    /\ proc = [p \in Processes |-> NoProcess]
    /\ race = NoRace
    /\ input = NoInput
    /\ computed = NoAnalysis
    /\ fetch = NoFetch

\* process p is inside CheckAndAlert
Busy(p) == proc[p].pc \notin {"idle", "done"}

\* cron (or an operator) starts the program while another run may be going
Start(p) ==
    /\ proc[p].pc = "idle"
    /\ proc' = [proc EXCEPT ![p].pc = "ResetRead"]
    /\ race' = [race EXCEPT !.overlapped =
                   @ \/ (\E q \in Processes \ {p} : Busy(q))]
    /\ UNCHANGED <<file, now, alertsToday, recoveriesToday, cycleVars, detectVars, fetchVars>>

\* ResetIfNewDay: GetLastAlertDate and the comparison of dates
ResetRead(p) ==
    /\ proc[p].pc = "ResetRead"
    /\ LET r == GetLastAlertDate(file, TRUE)
           newDay == /\ ~IsZero(r.state.LastAlertDate)
                     /\ Before(Midnight(r.state.LastAlertDate), Midnight(now))
       IN  proc' = [proc EXCEPT ![p].state = r.state,
                                ![p].pc = IF newDay THEN "ResetWrite"
                                          ELSE "GetForecast"]
    /\ UNCHANGED <<file, now, alertsToday, recoveriesToday, race, cycleVars,
                   detectVars, fetchVars>>

\* ResetIfNewDay: SaveAlertDate(resetState)
ResetWrite(p) ==
    /\ proc[p].pc = "ResetWrite"
    /\ file' = SaveAlertDate(file, [EmptyState EXCEPT !.LastAlertDate = now], TRUE).file
    /\ proc' = [proc EXCEPT ![p].pc = "GetForecast"]
    /\ UNCHANGED <<now, alertsToday, recoveriesToday, race, cycleVars, detectVars, fetchVars>>

\* GetForecast and analyzeForecast
FetchAndAnalyze(p) ==
    /\ proc[p].pc = "GetForecast"
    /\ \E forecast \in Forecasts :
         LET triggered == Analyses[forecast][FALSE].AnyTriggered
         IN  proc' = [proc EXCEPT ![p].triggered = triggered,
                                  ![p].pc = IF triggered THEN "shouldSendAlert"
                                            ELSE "ShouldSendRecoveryEmail"]
    /\ UNCHANGED <<file, now, alertsToday, recoveriesToday, race, cycleVars,
                   detectVars, fetchVars>>

\* shouldSendAlert: the daytime check and one read of the state file
CheckAlert(p) ==
    /\ proc[p].pc = "shouldSendAlert"
    /\ LET should == shouldSendAlert(file, now, Config(FALSE), "ok")
       IN  proc' = [proc EXCEPT ![p].pc = IF should.send THEN "SendAlert" ELSE "done",
                                ![p].early = should.send /\ ~race.marked]
    /\ UNCHANGED <<file, now, alertsToday, recoveriesToday, race, cycleVars,
                   detectVars, fetchVars>>

\* emailNotifier.SendAlert (the push notification that follows touches no state)
SendAlert(p) ==
    /\ proc[p].pc = "SendAlert"
    /\ alertsToday' = alertsToday + 1
    /\ proc' = [proc EXCEPT ![p].pc = "MarkAlertSentRead"]
    /\ UNCHANGED <<file, now, recoveriesToday, race, cycleVars, detectVars, fetchVars>>

\* MarkAlertSent: GetLastAlertDate
MarkAlertSentRead(p) ==
    /\ proc[p].pc = "MarkAlertSentRead"
    /\ proc' = [proc EXCEPT ![p].state = GetLastAlertDate(file, TRUE).state,
                            ![p].pc = "MarkAlertSentWrite"]
    /\ UNCHANGED <<file, now, alertsToday, recoveriesToday, race, cycleVars,
                   detectVars, fetchVars>>

\* A variant of the write of MarkAlertSent that saves the date and not the flag.
MarkAlertSentWrite_DateOnly(p) ==
    /\ proc[p].pc = "MarkAlertSentWrite"
    /\ file' = SaveAlertDate(file, [proc[p].state EXCEPT !.LastAlertDate = now],
                             TRUE).file
    /\ race' = [race EXCEPT !.marked = TRUE]
    /\ proc' = [proc EXCEPT ![p].pc = "done"]
    /\ UNCHANGED <<now, alertsToday, recoveriesToday, cycleVars, detectVars, fetchVars>>

\* MarkAlertSent: SaveAlertDate
MarkAlertSentWrite(p) ==
    /\ proc[p].pc = "MarkAlertSentWrite"
    /\ file' = SaveAlertDate(file, [proc[p].state EXCEPT !.LastAlertDate = now,
                                                         !.AlertSent = TRUE],
                             TRUE).file
    /\ race' = [race EXCEPT !.marked = TRUE]
    /\ proc' = [proc EXCEPT ![p].pc = "done"]
    /\ UNCHANGED <<now, alertsToday, recoveriesToday, cycleVars, detectVars, fetchVars>>

\* ShouldSendRecoveryEmail: one read of the state file
CheckRecovery(p) ==
    /\ proc[p].pc = "ShouldSendRecoveryEmail"
    /\ LET should == ShouldSendRecoveryEmail(file, "ok")
       IN  proc' = [proc EXCEPT ![p].pc = IF should.send THEN "SendRecoveryEmail"
                                          ELSE "done"]
    /\ UNCHANGED <<file, now, alertsToday, recoveriesToday, race, cycleVars,
                   detectVars, fetchVars>>

\* emailNotifier.SendRecoveryEmail
SendRecoveryEmail(p) ==
    /\ proc[p].pc = "SendRecoveryEmail"
    /\ recoveriesToday' = recoveriesToday + 1
    /\ proc' = [proc EXCEPT ![p].pc = "MarkRecoveryEmailSentRead"]
    /\ UNCHANGED <<file, now, alertsToday, race, cycleVars, detectVars, fetchVars>>

\* MarkRecoveryEmailSent: GetLastAlertDate
MarkRecoveryEmailSentRead(p) ==
    /\ proc[p].pc = "MarkRecoveryEmailSentRead"
    /\ proc' = [proc EXCEPT ![p].state = GetLastAlertDate(file, TRUE).state,
                            ![p].pc = "MarkRecoveryEmailSentWrite"]
    /\ UNCHANGED <<file, now, alertsToday, recoveriesToday, race, cycleVars,
                   detectVars, fetchVars>>

\* MarkRecoveryEmailSent: SaveAlertDate
MarkRecoveryEmailSentWrite(p) ==
    /\ proc[p].pc = "MarkRecoveryEmailSentWrite"
    /\ file' = SaveAlertDate(file, [proc[p].state EXCEPT !.RecoveryEmailSent = TRUE],
                             TRUE).file
    /\ proc' = [proc EXCEPT ![p].pc = "done"]
    /\ UNCHANGED <<now, alertsToday, recoveriesToday, race, cycleVars, detectVars, fetchVars>>

NextRace ==
    \E p \in Processes :
        \/ Start(p)
        \/ ResetRead(p)
        \/ ResetWrite(p)
        \/ FetchAndAnalyze(p)
        \/ CheckAlert(p)
        \/ SendAlert(p)
        \/ MarkAlertSentRead(p)
        \/ MarkAlertSentWrite(p)
        \/ CheckRecovery(p)
        \/ SendRecoveryEmail(p)
        \/ MarkRecoveryEmailSentRead(p)
        \/ MarkRecoveryEmailSentWrite(p)

SpecRace == InitRace /\ [][NextRace]_vars

----------------------------------------------------------------------------
(* The forecast analysis alone: analyzeForecast on a forecast, and         *)
(* evaluateLowProductionDuration on a sequence of production samples.      *)

\* a production sample given directly to evaluateLowProductionDuration:
\* L below the threshold, E equal to it, H above it, all three in daylight,
\* D above the threshold with GHI under the daylight threshold
ProductionSample(kind, h, cfg) ==
    [ Hour |-> h,
      Temperature |-> STCTemperature,
      GHI |-> IF kind = "D" THEN cfg.DaylightGHIThreshold - 1
              ELSE cfg.DaylightGHIThreshold,
      EstimatedOutputKW |->
          CASE kind = "L" -> cfg.ProductionAlertThreshold - KWScale
            [] kind = "E" -> cfg.ProductionAlertThreshold
            [] OTHER -> cfg.ProductionAlertThreshold + KWScale ]

\* the timestamp of the i-th sample: hourly from hour 1, with a night of
\* twelve hours left out before sample gapAt when gapAt is not 0
SampleHour(i, gapAt) ==
    (i + (IF gapAt # 0 /\ i >= gapAt THEN 12 ELSE 0)) * TicksPerHour

\* production samples ks[1..n] with a night before sample g
ProductionInput(n, ks, g, tm) ==
    [ kind |-> "production", testMode |-> tm,
      samples |-> [ i \in 1..n |->
                      ProductionSample(ks[i], SampleHour(i, g), Config(tm)) ] ]

\* a forecast as the provider returns it: one sample per hour
ForecastInput(n, ks, tm) ==
    [ kind |-> "forecast", testMode |-> tm,
      samples |-> [ i \in 1..n |-> Sample(ks[i], i) ] ]

\* the arguments of findRecoveryInExtendedForecast: production samples
\* ks[1..n] with a night before sample g, and the analysis of a triggered run
\* from sample a to sample b that has no recovery yet
ExtendedInput(n, ks, g, a, b, tm) ==
    LET production == ProductionInput(n, ks, g, tm).samples
    IN  [ kind |-> "extended", testMode |-> tm,
          samples |-> production,
          before |-> [EmptyAnalysis EXCEPT
                        !.LowProductionDurationTriggered = TRUE,
                        !.AnyTriggered = TRUE,
                        !.LowProductionHours = SubSeq(production, a, b),
                        !.AllProductionHours = production,
                        !.ConsecutiveHourCount = b - a + 1,
                        !.FirstLowProductionHour = production[a].Hour,
                        !.LastLowProductionHour = production[b].Hour] ]

\* production samples ks[1..n] half an hour apart, from 01:00 on
HalfHourlyInput(n, ks, tm) ==
    [ kind |-> "halfhourly", testMode |-> tm,
      samples |-> [ i \in 1..n |->
                      ProductionSample(ks[i], TicksPerHour + i - 1, Config(tm)) ] ]

\* the values of duration_threshold_hours the loader is given: strconv.Atoi
\* accepts every integer and nothing checks the value afterwards
Durations == {0 - 1, 0, 1, 2}

\* the configuration after duration_threshold_hours = d has been read
ConfigWith(d) == [Config(FALSE) EXCEPT !.DurationThresholdHours = d]

\* a forecast analyzed under a configured duration threshold
ConfiguredInput(n, ks, d) ==
    [ kind |-> "configured", testMode |-> FALSE, duration |-> d,
      samples |-> [ i \in 1..n |-> Sample(ks[i], i) ] ]

InitDetect ==
    /\ file = NoFile
    /\ now = [day |-> 1, hour |-> 0]
    /\ last = NoCycle
    /\ prev = "none"
    /\ alertsToday = 0
    /\ recoveriesToday = 0
    /\ storeFailedToday = FALSE
    /\ pending = 0
    /\ deferred = FALSE
    /\ proc = [p \in Processes |-> NoProcess]
    /\ race = NoRace
    /\ \E n \in 0..MaxSamples, tm \in BOOLEAN :
          \/ \E ks \in [1..n -> {"L", "E", "H", "D"}], g \in 0..n :
                input = ProductionInput(n, ks, g, tm)
          \/ \E ks \in [1..n -> {"L", "H", "N"}] :
                input = ForecastInput(n, ks, tm)
          \/ /\ n < MaxSamples
             /\ \E ks \in [1..n -> {"L", "E", "H", "D"}], a \in 1..n :
                  \E b \in a..n : \E g \in {0, b + 1} :
                     /\ g <= n
                     /\ input = ExtendedInput(n, ks, g, a, b, tm)
          \/ /\ ~tm
             /\ \E ks \in [1..n -> {"L", "H", "N"}], d \in Durations :
                   input = ConfiguredInput(n, ks, d)
          \/ /\ n >= 2
             /\ \E ks \in [1..n -> {"L", "E", "H", "D"}] :
                   input = HalfHourlyInput(n, ks, tm)
    /\ computed = NoAnalysis
    /\ fetch = NoFetch

\* evaluateLowProductionDuration(production, analysis) on a fresh AlertAnalysis
Evaluate ==
    /\ input.kind = "production"
    /\ ~computed.done
    /\ computed' =
          [ done |-> TRUE,
            result |-> evaluateLowProductionDuration(input.samples, EmptyAnalysis,
                                                     Config(input.testMode)) ]
    /\ UNCHANGED <<file, now, alertsToday, recoveriesToday, cycleVars, raceVars, input, fetchVars>>

\* analyzeForecast(forecast)
Analyze ==
    /\ input.kind = "forecast"
    /\ ~computed.done
    /\ computed' =
          [ done |-> TRUE,
            result |-> analyzeForecast(input.samples, Config(input.testMode)) ]
    /\ UNCHANGED <<file, now, alertsToday, recoveriesToday, cycleVars, raceVars, input, fetchVars>>

\* findRecoveryInExtendedForecast(allDaylightProduction, analysis)
FindRecovery ==
    /\ input.kind = "extended"
    /\ ~computed.done
    /\ computed' =
          [ done |-> TRUE,
            result |-> findRecoveryInExtendedForecast(input.samples, input.before,
                                                      Config(input.testMode)) ]
    /\ UNCHANGED <<file, now, alertsToday, recoveriesToday, cycleVars, raceVars, input, fetchVars>>

\* analyzeForecast(forecast) under the configured duration threshold
AnalyzeWith ==
    /\ input.kind = "configured"
    /\ ~computed.done
    /\ computed' =
          [ done |-> TRUE,
            result |-> analyzeForecast(input.samples, ConfigWith(input.duration)) ]
    /\ UNCHANGED <<file, now, alertsToday, recoveriesToday, cycleVars, raceVars, input, fetchVars>>

\* evaluateLowProductionDuration(production, analysis) on samples half an
\* hour apart
EvaluateHalfHourly ==
    /\ input.kind = "halfhourly"
    /\ ~computed.done
    /\ computed' =
          [ done |-> TRUE,
            result |-> evaluateLowProductionDuration(input.samples, EmptyAnalysis,
                                                     Config(input.testMode)) ]
    /\ UNCHANGED <<file, now, alertsToday, recoveriesToday, cycleVars, raceVars, input, fetchVars>>

NextDetect ==
    Evaluate \/ Analyze \/ FindRecovery \/ AnalyzeWith \/ EvaluateHalfHourly

SpecDetect == InitDetect /\ [][NextDetect]_vars

\* the sequence evaluateLowProductionDuration scanned for the result held
Scanned ==
    IF input.kind \in {"production", "halfhourly", "extended"} THEN input.samples
    ELSE MapSeq(filterAnalysisWindow(input.samples, Config(input.testMode)),
                calculateSolarProduction)

\* sample i of the scanned sequence is below the production threshold
Low(i) ==
    Scanned[i].EstimatedOutputKW < Config(input.testMode).ProductionAlertThreshold

\* the runs of the scanned sequence: maximal intervals a..b of low samples
Runs ==
    { r \in (1..Len(Scanned)) \X (1..Len(Scanned)) :
        /\ r[1] <= r[2]
        /\ \A i \in r[1]..r[2] : Low(i)
        /\ r[1] = 1 \/ ~Low(r[1] - 1)
        /\ r[2] = Len(Scanned) \/ ~Low(r[2] + 1) }

RunLength(r) == r[2] - r[1] + 1

\* the length of the longest run, 0 when there is none
MaxRunLength ==
    IF Runs = {} THEN 0
    ELSE CHOOSE n \in 1..Len(Scanned) :
            /\ \E r \in Runs : RunLength(r) = n
            /\ \A r \in Runs : RunLength(r) <= n

LongestRuns == { r \in Runs : RunLength(r) = MaxRunLength }

\* the first of the longest runs in input order (there is a run)
FirstLongestRun ==
    CHOOSE r \in LongestRuns : \A q \in LongestRuns : r[1] <= q[1]

\* run r is followed in the input by a sample in daylight
FollowedByDaylight(r) ==
    /\ r[2] < Len(Scanned)
    /\ Scanned[r[2] + 1].GHI >= Config(input.testMode).DaylightGHIThreshold

\* the samples scanned are one hour apart
Hourly ==
    \A i \in 1..(Len(Scanned) - 1) : Scanned[i + 1].Hour = Scanned[i].Hour + TicksPerHour

----------------------------------------------------------------------------
(* The production estimate alone: calculateSolarProduction on one weather  *)
(* sample under a panel configuration, and filterAnalysisWindow on a list  *)
(* of samples.                                                             *)

\* one percent in the unit of OutputPercentage
PercentScale == KWScale \div 100

\* A variant of calculateSolarProduction that does not clamp the estimate at 0.
calculateSolarProductionOf_NoFloor(hour, cfg) ==
    LET ghiFactor == hour.GHI
        tempAdjustment ==
            1000 + cfg.TempCoefficientTenths * (hour.Temperature - STCTemperature)
        raw == cfg.RatedCapacityKW * ghiFactor * cfg.InverterEfficiencyPct
                  * tempAdjustment
        pct == raw \div cfg.RatedCapacityKW
    IN  [ Hour |-> hour.Hour,
          GHI |-> hour.GHI,
          Temperature |-> hour.Temperature,
          EstimatedOutputKW |-> raw,
          OutputPercentage |-> IF pct < 0 THEN 0
                               ELSE IF pct > 100 * PercentScale
                               THEN 100 * PercentScale ELSE pct ]

\* A variant of calculateSolarProduction that caps the estimate at the
\* rated capacity.
calculateSolarProductionOf_Capped(hour, cfg) ==
    LET ghiFactor == hour.GHI
        tempAdjustment ==
            1000 + cfg.TempCoefficientTenths * (hour.Temperature - STCTemperature)
        raw == cfg.RatedCapacityKW * ghiFactor * cfg.InverterEfficiencyPct
                  * tempAdjustment
        est == IF raw < 0 THEN 0
               ELSE IF raw > cfg.RatedCapacityKW * KWScale
               THEN cfg.RatedCapacityKW * KWScale ELSE raw
        pct == est \div cfg.RatedCapacityKW
    IN  [ Hour |-> hour.Hour,
          GHI |-> hour.GHI,
          Temperature |-> hour.Temperature,
          EstimatedOutputKW |-> est,
          OutputPercentage |-> IF pct < 0 THEN 0
                               ELSE IF pct > 100 * PercentScale
                               THEN 100 * PercentScale ELSE pct ]

\* A variant of calculateSolarProduction with the temperature derating
\* inverted: a gain above the reference temperature, a loss below it.
calculateSolarProductionOf_Inverted(hour, cfg) ==
    LET ghiFactor == hour.GHI
        tempAdjustment ==
            1000 - cfg.TempCoefficientTenths * (hour.Temperature - STCTemperature)
        raw == cfg.RatedCapacityKW * ghiFactor * cfg.InverterEfficiencyPct
                  * tempAdjustment
        est == IF raw < 0 THEN 0 ELSE raw
        pct == est \div cfg.RatedCapacityKW
    IN  [ Hour |-> hour.Hour,
          GHI |-> hour.GHI,
          Temperature |-> hour.Temperature,
          EstimatedOutputKW |-> est,
          OutputPercentage |-> IF pct < 0 THEN 0
                               ELSE IF pct > 100 * PercentScale
                               THEN 100 * PercentScale ELSE pct ]

\* calculateSolarProduction under the configuration cfg, with the
\* percentage of the rated capacity: P = rated * (GHI / 1000) * inverter *
\* (1 + coefficient / 100 * (temperature - 25)), in KWScale units per kW
calculateSolarProductionOf(hour, cfg) ==
    LET ghiFactor == hour.GHI
        tempAdjustment ==
            1000 + cfg.TempCoefficientTenths * (hour.Temperature - STCTemperature)
        raw == cfg.RatedCapacityKW * ghiFactor * cfg.InverterEfficiencyPct
                  * tempAdjustment
        est == IF raw < 0 THEN 0 ELSE raw
        pct == est \div cfg.RatedCapacityKW
    IN  [ Hour |-> hour.Hour,
          GHI |-> hour.GHI,
          Temperature |-> hour.Temperature,
          EstimatedOutputKW |-> est,
          OutputPercentage |-> IF pct < 0 THEN 0
                               ELSE IF pct > 100 * PercentScale
                               THEN 100 * PercentScale ELSE pct ]

\* panel configurations: rated capacity above 0, with or without inverter
\* loss, negative, zero and positive temperature coefficient
Panels ==
    [ RatedCapacityKW : {RatedCapacityKW, 10},
      InverterEfficiencyPct : {InverterEfficiencyPct, 100},
      TempCoefficientTenths : {TempCoefficientTenths, 0, 4} ]

\* irradiance: negative, night, partial sun, the STC reference
Irradiances == {0 - 100, 0, 500, STCIrradiance}

\* temperature: from a frost to a value at which the derating is negative
Temperatures == {0 - 40, 15, STCTemperature, 35, 300}

WeatherInput(ghi, temp, cfg) ==
    [ kind |-> "weather", testMode |-> FALSE,
      samples |-> << [Hour |-> 1, GHI |-> ghi, Temperature |-> temp] >>,
      panel |-> cfg ]

\* hourly samples for filterAnalysisWindow: N night, U just under the
\* daylight threshold, T at the threshold, H full sun
HoursInput(n, ks) ==
    [ kind |-> "hours", testMode |-> FALSE,
      samples |-> [ i \in 1..n |->
                      [ Hour |-> i, Temperature |-> STCTemperature,
                        GHI |-> CASE ks[i] = "N" -> 0
                                  [] ks[i] = "U" -> DaylightGHIThreshold - 1
                                  [] ks[i] = "T" -> DaylightGHIThreshold
                                  [] OTHER -> 800 ] ] ]

InitProduce ==
    /\ file = NoFile
    /\ now = [day |-> 1, hour |-> 0]
    /\ last = NoCycle
    /\ prev = "none"
    /\ alertsToday = 0
    /\ recoveriesToday = 0
    /\ storeFailedToday = FALSE
    /\ pending = 0
    /\ deferred = FALSE
    /\ proc = [p \in Processes |-> NoProcess]
    /\ race = NoRace
    /\ \/ \E ghi \in Irradiances, temp \in Temperatures, cfg \in Panels :
             input = WeatherInput(ghi, temp, cfg)
       \/ \E n \in 0..MaxSamples : \E ks \in [1..n -> {"N", "U", "T", "H"}] :
             input = HoursInput(n, ks)
    /\ computed = NoAnalysis
    /\ fetch = NoFetch

\* calculateSolarProduction(hour)
Produce ==
    /\ input.kind = "weather"
    /\ ~computed.done
    /\ computed' =
          [ done |-> TRUE,
            result |-> calculateSolarProductionOf(input.samples[1], input.panel) ]
    /\ UNCHANGED <<file, now, alertsToday, recoveriesToday, cycleVars, raceVars, input, fetchVars>>

\* filterAnalysisWindow(hours)
Filter ==
    /\ input.kind = "hours"
    /\ ~computed.done
    /\ computed' =
          [ done |-> TRUE,
            result |-> filterAnalysisWindow(input.samples, Config(input.testMode)) ]
    /\ UNCHANGED <<file, now, alertsToday, recoveriesToday, cycleVars, raceVars, input, fetchVars>>

NextProduce == Produce \/ Filter

SpecProduce == InitProduce /\ [][NextProduce]_vars

----------------------------------------------------------------------------
(* The forecast fetch alone: OpenMeteoAdapter.GetForecast *)

\* api_retry_attempts and api_retry_delay_seconds are read with strconv.Atoi
\* and stored unvalidated; 3 and 5 are the defaults
DefaultAPIRetryAttempts == 3
DefaultAPIRetryDelaySeconds == 5

MaxAttempts == 4

RetryAttempts == 0..MaxAttempts
RetryDelays == {0, DefaultAPIRetryDelaySeconds}

\* NewOpenMeteoAdapter(config, logger)
NewOpenMeteoAdapter(attempts, delay) ==
    [ NoFetch EXCEPT !.pc = "call", !.retryAttempts = attempts,
                     !.retryDelay = delay ]

\* an attempt whose request or whose parsing returned an error
Failed(outcome) == outcome \in {"do", "parse"}

\* for attempt := 0; attempt < a.retryAttempts; attempt++
LoopContinues_OneMore(f) == f.attempt <= f.retryAttempts

LoopContinues(f) == f.attempt < f.retryAttempts

\* the cases of the select statement that can be taken: a goroutine blocked
\* in the select takes the case that becomes ready first, and a select
\* entered with both cases ready takes either
SelectCases_TimerAlso(f) ==
    IF ~f.ctx.done THEN {"timer"} ELSE {"timer", "ctx"}

SelectCases(f) ==
    IF ~f.ctx.done THEN {"timer"}
    ELSE IF f.ctx.at # "select" /\ f.retryDelay <= 0 THEN {"timer", "ctx"}
    ELSE {"ctx"}

\* what a.httpClient.Do followed by a.parseResponse can yield: a request on
\* a context that is already done fails, a context that ends during the
\* request fails the request or the reading of its body
DoOutcomes(f) ==
    IF ~f.ctx.done THEN {"ok", "do", "parse"}
    ELSE IF f.ctx.at = "do" /\ f.ctx.tried = Len(f.outcomes) THEN {"do", "parse"}
    ELSE {"do"}

InitFetch ==
    /\ file = NoFile
    /\ now = [day |-> 1, hour |-> 0]
    /\ last = NoCycle
    /\ prev = "none"
    /\ alertsToday = 0
    /\ recoveriesToday = 0
    /\ storeFailedToday = FALSE
    /\ pending = 0
    /\ deferred = FALSE
    /\ proc = [p \in Processes |-> NoProcess]
    /\ race = NoRace
    /\ input = NoInput
    /\ computed = NoAnalysis
    /\ \E attempts \in RetryAttempts, delay \in RetryDelays :
          fetch = NewOpenMeteoAdapter(attempts, delay)

\* GetForecast is called: var lastErr error; attempt := 0
GetForecast ==
    /\ fetch.pc = "call"
    /\ fetch' = [fetch EXCEPT !.pc = "loop", !.attempt = 0, !.lastErr = "nil"]
    /\ UNCHANGED <<file, now, alertsToday, recoveriesToday, cycleVars, raceVars,
                   detectVars>>

\* the loop condition, and the return after the loop
LoopTest ==
    /\ fetch.pc = "loop"
    /\ fetch' =
          IF ~LoopContinues(fetch)
            THEN [fetch EXCEPT !.pc = "returned", !.result = "error"]
          ELSE IF fetch.attempt > 0
            THEN [fetch EXCEPT !.pc = "select"]
          ELSE [fetch EXCEPT !.pc = "do"]
    /\ UNCHANGED <<file, now, alertsToday, recoveriesToday, cycleVars, raceVars,
                   detectVars>>

\* case <-time.After(a.retryDelay):
TimerFires ==
    /\ fetch.pc = "select"
    /\ "timer" \in SelectCases(fetch)
    /\ fetch' = [fetch EXCEPT !.pc = "do",
                              !.waits = Append(@, fetch.retryDelay)]
    /\ UNCHANGED <<file, now, alertsToday, recoveriesToday, cycleVars, raceVars,
                   detectVars>>

\* case <-ctx.Done(): return nil, ctx.Err()
CtxDone ==
    /\ fetch.pc = "select"
    /\ "ctx" \in SelectCases(fetch)
    /\ fetch' = [fetch EXCEPT !.pc = "returned", !.result = "ctx"]
    /\ UNCHANGED <<file, now, alertsToday, recoveriesToday, cycleVars, raceVars,
                   detectVars>>

\* a.httpClient.Do, a.parseResponse and what follows each of their results
Do ==
    /\ fetch.pc = "do"
    /\ \E outcome \in DoOutcomes(fetch) :
          fetch' =
             IF Failed(outcome)
               THEN [fetch EXCEPT !.outcomes = Append(@, outcome),
                                  !.lastErr = outcome,
                                  !.attempt = @ + 1,
                                  !.pc = "loop"]
             ELSE [fetch EXCEPT !.outcomes = Append(@, outcome),
                                !.pc = "returned", !.result = "data"]
    /\ UNCHANGED <<file, now, alertsToday, recoveriesToday, cycleVars, raceVars,
                   detectVars>>

\* the deadline of the caller's context passes, or the caller cancels it
Cancel ==
    /\ fetch.pc \in {"call", "loop", "select", "do"}
    /\ ~fetch.ctx.done
    /\ fetch' = [fetch EXCEPT !.ctx = [ done |-> TRUE, at |-> fetch.pc,
                                        tried |-> Len(fetch.outcomes) ]]
    /\ UNCHANGED <<file, now, alertsToday, recoveriesToday, cycleVars, raceVars,
                   detectVars>>

\* the steps of the adapter
FetchStep == GetForecast \/ LoopTest \/ TimerFires \/ CtxDone \/ Do

NextFetch == GetForecast \/ LoopTest \/ TimerFires \/ CtxDone \/ Do \/ Cancel

SpecFetch == InitFetch /\ [][NextFetch]_vars

\* every request ends (the client has a timeout) and every timer fires
SpecFetchLive == SpecFetch /\ WF_vars(FetchStep)

----------------------------------------------------------------------------
(* Vocabulary of the properties *)

\* cycle l passes the daytime check of shouldSendAlert
InWindow(l) == PassesDaytimeCheck(l.testMode, l.at)

\* file f records an alert sent on the day of t
SentToday(f, t) == f.exists /\ f.AlertSent /\ f.LastAlertDate = t.day

\* file f carries a date earlier than the day of t
Stale(f, t) == f.exists /\ f.LastAlertDate < t.day

\* the cycle met a read or write fault of the state file
FileFault(out) ==
    out.faults \cap {"reset-read", "reset-write", "check-read",
                     "mark-read", "mark-write"} # {}

Count(calls, name) == Cardinality({i \in 1..Len(calls) : calls[i] = name})

Pushed(out) ==
    Called(out.calls, "SendNotification") \/ Called(out.calls, "GenerateChartImage")

Notified(out) ==
    \/ Called(out.calls, "SendAlert")
    \/ Called(out.calls, "SendRecoveryEmail")
    \/ Pushed(out)

\* every call of a comes before every call of b
CalledBefore(calls, a, b) ==
    \A i, j \in 1..Len(calls) : (calls[i] = a /\ calls[j] = b) => i < j

\* the state ResetIfNewDay writes at time t
ResetFile(t) ==
    [ exists |-> TRUE, LastAlertDate |-> t.day, AlertSent |-> FALSE,
      AlertRecovered |-> FALSE, RecoveryEmailSent |-> FALSE ]

----------------------------------------------------------------------------
(* Properties *)

C2_SuppressedWhenSentToday ==
    (last.ran /\ last.out.triggered /\ SentToday(last.pre, last.at)
       /\ ~FileFault(last.out))
    => /\ ~Called(last.out.calls, "SendAlert")
       /\ ~Pushed(last.out)
       /\ last.out.err = "nil"
       /\ last.out.file = last.pre

\* C2 witness: such a cycle ran inside the daytime window and read the state
C2_Witness ==
    /\ last.ran /\ last.out.triggered /\ SentToday(last.pre, last.at)
    /\ ~FileFault(last.out) /\ ~last.testMode
    /\ Called(last.out.calls, "GetLastAlertDate")

\* C3: when the persisted state is dated before today with alertSent=true and
\* the daily reset goes through, a cycle with no triggered criteria ends with
\* the state dated today, alertSent=false, recoveryEmailSent=false, and
\* SendRecoveryEmail is not called.
C3_ResetBeforeRecoveryCheck ==
    (last.ran /\ Stale(last.pre, last.at) /\ last.pre.AlertSent
       /\ last.out.fetched /\ ~last.out.triggered /\ ~last.out.resetErr)
    => /\ last.out.file.exists
       /\ last.out.file.LastAlertDate = last.at.day
       /\ ~last.out.file.AlertSent
       /\ ~last.out.file.RecoveryEmailSent
       /\ ~Called(last.out.calls, "SendRecoveryEmail")

\* C3 witness: yesterday's alert was still waiting for its recovery notice
C3_Witness ==
    /\ last.ran /\ Stale(last.pre, last.at) /\ last.pre.AlertSent
    /\ ~last.pre.RecoveryEmailSent
    /\ last.out.fetched /\ ~last.out.triggered /\ ~last.out.resetErr

\* C4 as stated: in every cycle whose analysis is triggered and whose state
\* after the daily reset has alertSent=false, SendAlert is called, and if it
\* succeeds the state becomes alertSent=true dated today.
C4_Original ==
    (last.ran /\ last.out.triggered /\ ~last.out.mid.AlertSent
       /\ ~FileFault(last.out))
    => /\ Called(last.out.calls, "SendAlert")
       /\ AlertDelivered(last.out) => SentToday(last.out.file, last.at)

\* C4 amended: in every cycle whose analysis is triggered, whose state after
\* the daily reset has alertSent=false, and which runs in test mode or at an
\* hour inside the daytime window, SendAlert is called, and if it succeeds the
\* state becomes alertSent=true dated today (state file readable and writable).
C4_AlertSentAndMarked ==
    (last.ran /\ last.out.triggered /\ ~last.out.mid.AlertSent
       /\ InWindow(last) /\ ~FileFault(last.out))
    => /\ Count(last.out.calls, "SendAlert") = 1
       /\ AlertDelivered(last.out) => SentToday(last.out.file, last.at)

\* C4 witness: an alert delivered and recorded by a cycle outside test mode
C4_Witness ==
    /\ last.ran /\ last.out.triggered /\ ~last.out.mid.AlertSent
    /\ ~last.testMode /\ InWindow(last) /\ ~FileFault(last.out)
    /\ AlertDelivered(last.out) /\ SentToday(last.out.file, last.at)

\* C5: in a cycle with no triggered criteria that reads the persisted state
\* (as the daily reset left it) with alertSent=true and recoveryEmailSent=
\* false, SendRecoveryEmail is called exactly once; recoveryEmailSent is
\* persisted only after it succeeded, by MarkRecoveryEmailSent called after
\* it, and then alertSent, the date and alertRecovered are unchanged.
C5_RecoveryThenMark ==
    (last.ran /\ last.out.fetched /\ ~last.out.triggered
       /\ last.out.mid.exists /\ last.out.mid.AlertSent
       /\ ~last.out.mid.RecoveryEmailSent /\ "check-read" \notin last.out.faults)
    => /\ Count(last.out.calls, "SendRecoveryEmail") = 1
       /\ CalledBefore(last.out.calls, "SendRecoveryEmail", "MarkRecoveryEmailSent")
       /\ IF RecoveryDelivered(last.out) /\ last.out.err = "nil"
          THEN last.out.file = [last.out.mid EXCEPT !.RecoveryEmailSent = TRUE]
          ELSE last.out.file = last.out.mid
       /\ ~RecoveryDelivered(last.out) =>
             ~Called(last.out.calls, "MarkRecoveryEmailSent")

\* C5 witness: the recovery notice was delivered and recorded
C5_Witness ==
    /\ last.ran /\ last.out.fetched /\ ~last.out.triggered
    /\ last.out.mid.AlertSent /\ ~last.out.mid.RecoveryEmailSent
    /\ RecoveryDelivered(last.out) /\ last.out.file.RecoveryEmailSent

\* C6: if SendRecoveryEmail fails, the persisted state is unchanged
\* (alertSent=true, recoveryEmailSent=false) and CheckAndAlert returns an
\* error; the next cycle of the same day with no triggered criteria calls
\* SendRecoveryEmail again (state file readable).
C6_RecoveryFailureRetried ==
    /\ (last.ran /\ Called(last.out.calls, "SendRecoveryEmail")
          /\ "mail" \in last.out.faults)
       => /\ last.out.err # "nil"
          /\ last.out.file = last.pre
          /\ last.out.file.AlertSent /\ ~last.out.file.RecoveryEmailSent
          /\ ~Called(last.out.calls, "MarkRecoveryEmailSent")
    /\ (prev = "SendRecoveryEmail" /\ last.ran /\ last.out.fetched
          /\ ~last.out.triggered /\ ~FileFault(last.out))
       => Called(last.out.calls, "SendRecoveryEmail")

\* C6 witness: the retry after a failed recovery notice was delivered
C6_Witness ==
    /\ prev = "SendRecoveryEmail" /\ last.ran /\ ~last.out.triggered
    /\ RecoveryDelivered(last.out) /\ last.out.file.RecoveryEmailSent

\* what C7 says of the cycle in which SendAlert fails
C7_FailedCycle ==
    (last.ran /\ Called(last.out.calls, "SendAlert") /\ "mail" \in last.out.faults)
    => /\ last.out.err # "nil"
       /\ ~Pushed(last.out)
       /\ ~Called(last.out.calls, "MarkAlertSent")
       /\ last.out.file = last.out.mid
       /\ ~SentToday(last.out.file, last.at)
       /\ ~last.out.resetErr => ~last.out.file.AlertSent

\* C7 as stated: if SendAlert fails, CheckAndAlert returns an error, no push
\* notification is sent, MarkAlertSent is not called, alertSent stays false,
\* and the next triggered cycle that day calls SendAlert again.
C7_Original ==
    /\ C7_FailedCycle
    /\ (prev = "SendAlert" /\ last.ran /\ last.out.triggered
          /\ ~FileFault(last.out))
       => Called(last.out.calls, "SendAlert")

\* C7 amended: ... and the next triggered cycle that day that runs in test
\* mode or inside the daytime window calls SendAlert again.
C7_AlertFailureRetried ==
    /\ C7_FailedCycle
    /\ (prev = "SendAlert" /\ last.ran /\ last.out.triggered
          /\ InWindow(last) /\ ~FileFault(last.out))
       => Called(last.out.calls, "SendAlert")

\* C7 witness: the retry after a failed alert, outside test mode
C7_Witness ==
    /\ prev = "SendAlert" /\ last.ran /\ last.out.triggered /\ ~last.testMode
    /\ AlertDelivered(last.out)

\* C8 as stated: a cycle whose forecast fetch fails sends no notification and
\* leaves the persisted state exactly as it was before the cycle started,
\* whatever that state was.
C8_Original ==
    (last.ran /\ ~last.out.fetched)
    => /\ ~Notified(last.out)
       /\ last.out.file = last.pre

\* C8 amended: a cycle whose forecast fetch fails sends no notification and
\* returns an error; it changes the persisted state only through the daily
\* reset, which runs before the fetch: a state dated today and a missing
\* state are left as they were, a state dated before today is left as
\* ResetIfNewDay left it (today's date, all flags false, when its write
\* succeeded).
C8_FetchFailure ==
    (last.ran /\ ~last.out.fetched)
    => /\ ~Notified(last.out)
       /\ last.out.err = "fetch"
       /\ last.out.file = last.out.mid
       /\ ~Stale(last.pre, last.at) => last.out.file = last.pre
       /\ (Stale(last.pre, last.at) /\ ~last.out.resetErr)
             => last.out.file = ResetFile(last.at)

\* C8 witness: the fetch failed after the daily reset had rewritten the state
C8_Witness ==
    /\ last.ran /\ ~last.out.fetched /\ Stale(last.pre, last.at)
    /\ last.pre.AlertSent /\ last.out.file # last.pre

C10_SendThenPersist ==
    /\ last.ran => CalledBefore(last.out.calls, "SendAlert", "MarkAlertSent")
    /\ (last.ran /\ Called(last.out.calls, "MarkAlertSent"))
          => AlertDelivered(last.out)
    /\ (last.ran /\ AlertDelivered(last.out) /\ "mark-write" \in last.out.faults)
       => /\ last.out.err # "nil"
          /\ last.out.file = last.out.mid
          /\ ~SentToday(last.out.file, last.at)

\* C10 as stated: ... so the next triggered cycle that day delivers the alert
\* a second time.
C10_Original ==
    /\ C10_SendThenPersist
    /\ (prev = "MarkAlertSent" /\ last.ran /\ last.out.triggered
          /\ ~FileFault(last.out))
       => /\ Called(last.out.calls, "SendAlert")
          /\ ("mail" \notin last.out.faults /\ last.at.day = now.day)
                => alertsToday >= 2

\* C10 amended: ... so the next triggered cycle that day that runs in test
\* mode or inside the daytime window calls SendAlert a second time, and
\* delivers the alert twice on that day when that call succeeds.
C10_AtLeastOnce ==
    /\ C10_SendThenPersist
    /\ (prev = "MarkAlertSent" /\ last.ran /\ last.out.triggered
          /\ InWindow(last) /\ ~FileFault(last.out))
       => /\ Called(last.out.calls, "SendAlert")
          /\ ("mail" \notin last.out.faults /\ last.at.day = now.day)
                => alertsToday >= 2

\* C10 witness: the same day's alert delivered twice
C10_Witness ==
    /\ prev = "MarkAlertSent" /\ last.ran /\ last.out.triggered
    /\ AlertDelivered(last.out) /\ alertsToday = 2

\* C11 as stated: after a successfully sent alert, the first later cycle
\* that evaluates with no triggered criteria sends the recovery notice,
\* whichever calendar day it runs on (collaborators succeeding).
C11_Original ==
    (last.ran /\ last.pend # 0 /\ Clean(last.out) /\ ~last.out.triggered)
    => RecoveryDelivered(last.out)

\* C11 amended: after a successfully sent alert, the first later cycle that
\* evaluates with no triggered criteria sends the recovery notice, once, if
\* it runs on the calendar day of the alert; if it runs on a later day the
\* daily reset has discarded the alert and no recovery notice is sent for it
\* (collaborators succeeding).
C11_RecoverySameDayOnly ==
    (last.ran /\ last.pend # 0 /\ Clean(last.out) /\ ~last.out.triggered)
    => /\ RecoveryDelivered(last.out) <=> (last.pend = last.at.day)
       /\ Count(last.out.calls, "SendRecoveryEmail") <= 1
       /\ RecoveryDelivered(last.out) => last.out.file.RecoveryEmailSent
       /\ last.pend < last.at.day => last.out.file = ResetFile(last.at)
       /\ pending = 0

\* C11 witness: the first cycle without triggered criteria came a day after
\* the alert and sent no recovery notice
C11_Witness ==
    /\ last.ran /\ last.pend # 0 /\ last.pend < last.at.day
    /\ Clean(last.out) /\ ~last.out.triggered
    /\ ~Called(last.out.calls, "SendRecoveryEmail")

\* C12: once the persisted state has alertSent=true and recoveryEmailSent=
\* true dated today, a cycle of that day calls no notifier and leaves the
\* persisted state as it was, whether its criteria are triggered or not.
C12_QuietAfterRecovery ==
    (last.ran /\ SentToday(last.pre, last.at) /\ last.pre.RecoveryEmailSent)
    => /\ ~Notified(last.out)
       /\ ~Called(last.out.calls, "MarkAlertSent")
       /\ ~Called(last.out.calls, "MarkRecoveryEmailSent")
       /\ last.out.file = last.pre

\* C12 witness: criteria triggered again, inside the daytime window, on the
\* day whose recovery notice had been sent; the state was read and the
\* alert suppressed
C12_Witness ==
    /\ last.ran /\ SentToday(last.pre, last.at) /\ last.pre.RecoveryEmailSent
    /\ last.out.triggered /\ ~last.testMode /\ InWindow(last)
    /\ Called(last.out.calls, "GetLastAlertDate") /\ last.out.err = "nil"

\* C13: a cycle with no triggered criteria that finds alertSent=false in the
\* persisted state as the daily reset left it calls no notifier and leaves
\* that state unchanged.
C13_IdleNoAction ==
    (last.ran /\ last.out.fetched /\ ~last.out.triggered /\ ~last.out.mid.AlertSent)
    => /\ ~Notified(last.out)
       /\ ~Called(last.out.calls, "MarkAlertSent")
       /\ ~Called(last.out.calls, "MarkRecoveryEmailSent")
       /\ last.out.file = last.out.mid

\* C13 witness: such a cycle read an existing state file of today and
\* returned success
C13_Witness ==
    /\ last.ran /\ last.out.fetched /\ ~last.out.triggered
    /\ last.out.mid.exists /\ ~last.out.mid.AlertSent
    /\ last.out.mid.LastAlertDate = last.at.day
    /\ Called(last.out.calls, "ShouldSendRecoveryEmail") /\ last.out.err = "nil"

\* what C14 says of SendAlert and of the result of a cycle stopped by the
\* daytime check: outside test mode SendAlert is called only at an hour h
\* with DaytimeStartHour <= h < DaytimeEndHour, and a triggered cycle at
\* another hour notifies nobody and returns success
C14_Gate ==
    /\ (last.ran /\ ~last.testMode /\ Called(last.out.calls, "SendAlert"))
       => (last.at.hour >= DaytimeStartHour /\ last.at.hour < DaytimeEndHour)
    /\ (last.ran /\ last.out.triggered /\ ~InWindow(last))
       => /\ ~Notified(last.out)
          /\ ~Called(last.out.calls, "GetLastAlertDate")
          /\ ~Called(last.out.calls, "MarkAlertSent")
          /\ last.out.err = "nil"

\* what C14 says of the alert held back: the first later triggered cycle
\* that passes the daytime check calls SendAlert (state file readable)
C14_SentLater ==
    (last.ran /\ last.defer /\ last.out.triggered /\ InWindow(last)
       /\ ~FileFault(last.out))
    => Called(last.out.calls, "SendAlert")

\* C14 as stated: ... a triggered cycle outside that window sends no alert,
\* writes no state and returns success, and the alert is sent by the first
\* later triggered cycle inside the window.
C14_Original ==
    /\ C14_Gate
    /\ (last.ran /\ last.out.triggered /\ ~InWindow(last))
       => last.out.file = last.pre
    /\ C14_SentLater

\* C14 amended: ... a triggered cycle outside that window sends no alert,
\* writes no state other than the daily reset of a state dated before today,
\* and returns success, and the alert is sent by the first later triggered
\* cycle inside the window.
C14_DaytimeWindow ==
    /\ C14_Gate
    /\ (last.ran /\ last.out.triggered /\ ~InWindow(last))
       => /\ last.out.file = last.out.mid
          /\ ~Stale(last.pre, last.at) => last.out.file = last.pre
          /\ (Stale(last.pre, last.at) /\ ~last.out.resetErr)
                => last.out.file = ResetFile(last.at)
    /\ C14_SentLater

\* C14 witness: an alert held back outside the window was delivered by a
\* later triggered cycle inside the window, outside test mode
C14_Witness ==
    /\ last.ran /\ last.defer /\ last.out.triggered /\ ~last.testMode
    /\ InWindow(last) /\ AlertDelivered(last.out)

\* C15: when two overlapping cycles both read the state file with no alert
\* recorded for today before either has written one, both call SendAlert and
\* two alerts go out that day; when the two cycles do not overlap, at most
\* one alert and one recovery notice go out.
C15_DuplicateOnlyWhenOverlapping ==
    /\ (\A p \in Processes : proc[p].pc = "done" /\ proc[p].early)
       => alertsToday = Cardinality(Processes)
    /\ \A p \in Processes :
          (proc[p].early /\ proc[p].pc \in {"MarkAlertSentRead", "MarkAlertSentWrite", "done"})
          => alertsToday >= 1
    /\ ~race.overlapped => (alertsToday <= 1 /\ recoveriesToday <= 1)
    /\ alertsToday > 1 => race.overlapped

\* C15 witness: two overlapping cycles have both sent the alert
C15_Witness ==
    /\ \A p \in Processes : proc[p].pc = "done" /\ proc[p].early
    /\ race.overlapped /\ alertsToday = 2
    /\ file.AlertSent /\ file.LastAlertDate = now.day

\* C16: evaluateLowProductionDuration reports triggered if and only if the
\* longest run of consecutive input samples with EstimatedOutputKW strictly
\* below the threshold has length >= DurationThresholdHours.
C16_TriggeredIffLongRun ==
    (computed.done /\ input.kind = "production")
    => (computed.result.LowProductionDurationTriggered
          <=> MaxRunLength >= Config(input.testMode).DurationThresholdHours)

\* C16 witness: a run of exactly DurationThresholdHours samples, ended by a
\* sample equal to the threshold, triggers with the default duration
C16_Witness ==
    /\ computed.done /\ input.kind = "production" /\ ~input.testMode
    /\ computed.result.LowProductionDurationTriggered
    /\ MaxRunLength = DurationThresholdHours
    /\ FirstLongestRun[2] < Len(Scanned)
    /\ Scanned[FirstLongestRun[2] + 1].EstimatedOutputKW
          = Config(input.testMode).ProductionAlertThreshold

\* C17: when evaluateLowProductionDuration reports triggered,
\* ConsecutiveHourCount is the length of the longest run of the input, and
\* FirstLowProductionHour, LastLowProductionHour and LowProductionHours are
\* those of the first run in input order of that length; a recovery is
\* reported only for a run of that length, never the one recorded for a
\* shorter run that a longer run replaced.
C17_LongestRunReported ==
    (computed.done /\ input.kind = "production"
       /\ computed.result.LowProductionDurationTriggered)
    => /\ computed.result.ConsecutiveHourCount = MaxRunLength
       /\ computed.result.FirstLowProductionHour = Scanned[FirstLongestRun[1]].Hour
       /\ computed.result.LastLowProductionHour = Scanned[FirstLongestRun[2]].Hour
       /\ computed.result.LowProductionHours
             = SubSeq(Scanned, FirstLongestRun[1], FirstLongestRun[2])
       /\ computed.result.HasRecovery
             <=> \E r \in LongestRuns : FollowedByDaylight(r)
       /\ computed.result.HasRecovery
             => \E r \in LongestRuns :
                   /\ FollowedByDaylight(r)
                   /\ computed.result.RecoveryHour = Scanned[r[2] + 1].Hour

\* C17 witness: a run that had its recovery was followed by a strictly
\* longer run without one; the longer run is reported, with no recovery
C17_Witness ==
    /\ computed.done /\ input.kind = "production"
    /\ computed.result.LowProductionDurationTriggered
    /\ ~computed.result.HasRecovery
    /\ \E r \in Runs :
          /\ RunLength(r) < MaxRunLength
          /\ r[1] < FirstLongestRun[1]
          /\ FollowedByDaylight(r)

\* C18: when two runs share the maximal length, the earlier run is the one
\* reported and the reported RecoveryHour is the timestamp of the sample
\* that ended that earlier run, not of the sample that followed the later run.
C18_EarlierRunKeepsItsRecovery ==
    (computed.done /\ input.kind = "production"
       /\ computed.result.LowProductionDurationTriggered
       /\ Cardinality(LongestRuns) >= 2)
    => /\ computed.result.FirstLowProductionHour = Scanned[FirstLongestRun[1]].Hour
       /\ computed.result.HasRecovery
             => /\ FollowedByDaylight(FirstLongestRun)
                /\ computed.result.RecoveryHour
                      = Scanned[FirstLongestRun[2] + 1].Hour

\* C19: for a triggered run immediately followed in the input by a sample
\* with output >= threshold and GHI >= daylight threshold (samples one hour
\* apart): HasRecovery is true, RecoveryHour is that sample's timestamp and
\* HoursUntilRecovery equals ConsecutiveHourCount.
C19_RecoveryAfterRun ==
    (computed.done /\ input.kind = "production" /\ Hourly
       /\ computed.result.LowProductionDurationTriggered
       /\ FollowedByDaylight(FirstLongestRun))
    => /\ computed.result.HasRecovery
       /\ computed.result.RecoveryHour = Scanned[FirstLongestRun[2] + 1].Hour
       /\ computed.result.HoursUntilRecovery = computed.result.ConsecutiveHourCount

\* C20: every run reported through analyzeForecast consists of
\* chronologically consecutive hours: adjacent samples of LowProductionHours
\* are exactly one hour apart.
C20_RunIsChronological ==
    (computed.done /\ input.kind = "forecast" /\ computed.result.AnyTriggered)
    => \A i \in 1..(Len(computed.result.LowProductionHours) - 1) :
          computed.result.LowProductionHours[i + 1].Hour
             = computed.result.LowProductionHours[i].Hour + TicksPerHour

\* C21: a sample at or above the production threshold whose GHI is below the
\* daylight threshold ends the current run and is never the recovery hour:
\* the reported run stops before it, a reported RecoveryHour is the hour of
\* a sample in daylight, and when no run of the maximal length is followed
\* by a sample in daylight the result is triggered with HasRecovery = FALSE.
C21_DarkSampleIsNoRecovery ==
    (computed.done /\ input.kind = "production"
       /\ computed.result.LowProductionDurationTriggered)
    => /\ computed.result.LowProductionHours
             = SubSeq(Scanned, FirstLongestRun[1], FirstLongestRun[2])
       /\ computed.result.HasRecovery
             => \A i \in 1..Len(Scanned) :
                   Scanned[i].Hour = computed.result.RecoveryHour
                   => Scanned[i].GHI >= Config(input.testMode).DaylightGHIThreshold
       /\ (\A r \in LongestRuns : ~FollowedByDaylight(r))
             => ~computed.result.HasRecovery

\* C21 witness: the only run of the maximal length was ended by a sample above
\* the threshold in the dark, outside test mode; no recovery is reported
C21_Witness ==
    /\ computed.done /\ input.kind = "production" /\ ~input.testMode
    /\ computed.result.LowProductionDurationTriggered
    /\ Cardinality(LongestRuns) = 1
    /\ FirstLongestRun[2] < Len(Scanned)
    /\ Scanned[FirstLongestRun[2] + 1].GHI
          < Config(input.testMode).DaylightGHIThreshold
    /\ Scanned[FirstLongestRun[2] + 1].EstimatedOutputKW
          >= Config(input.testMode).ProductionAlertThreshold
    /\ ~computed.result.HasRecovery

\* the samples findRecoveryInExtendedForecast can take as the recovery: after
\* the end of the run, at or above the production threshold, in daylight
RecoveryCandidates ==
    { i \in 1..Len(input.samples) :
        /\ input.samples[i].Hour > input.before.LastLowProductionHour
        /\ input.samples[i].EstimatedOutputKW
              >= Config(input.testMode).ProductionAlertThreshold
        /\ input.samples[i].GHI >= Config(input.testMode).DaylightGHIThreshold }

\* C22: findRecoveryInExtendedForecast sets HasRecovery, RecoveryHour and
\* HoursUntilRecovery from the first sample in input order that is strictly
\* after LastLowProductionHour with output >= threshold and GHI >= daylight
\* threshold, HoursUntilRecovery being the hours from FirstLowProductionHour
\* to that sample; without such a sample the analysis is left as it was.
C22_FirstRecoveryAfterRun ==
    (computed.done /\ input.kind = "extended")
    => IF RecoveryCandidates = {}
       THEN computed.result = input.before
       ELSE LET i == CHOOSE c \in RecoveryCandidates :
                        \A d \in RecoveryCandidates : c <= d
            IN  computed.result =
                  [input.before EXCEPT
                     !.HasRecovery = TRUE,
                     !.RecoveryHour = input.samples[i].Hour,
                     !.HoursUntilRecovery =
                        (input.samples[i].Hour
                           - input.before.FirstLowProductionHour) \div TicksPerHour]

\* C22 witness: the recovery is found the day after a run of several hours,
\* past a sample above the threshold in the dark
C22_Witness ==
    /\ computed.done /\ input.kind = "extended"
    /\ input.before.ConsecutiveHourCount >= 2
    /\ computed.result.HasRecovery
    /\ computed.result.HoursUntilRecovery > 12
    /\ \E i \in 1..Len(input.samples) :
          /\ input.samples[i].Hour > input.before.LastLowProductionHour
          /\ input.samples[i].Hour < computed.result.RecoveryHour
          /\ input.samples[i].GHI < Config(input.testMode).DaylightGHIThreshold

\* C22 witness of the other case: no sample qualifies, nothing changes
C22_WitnessNone ==
    /\ computed.done /\ input.kind = "extended"
    /\ input.before.LastLowProductionHour < input.samples[Len(input.samples)].Hour
    /\ ~computed.result.HasRecovery

\* C23: for every weather sample and every configuration with a rated
\* capacity above 0 (negative GHI, extreme temperatures and a positive
\* temperature coefficient included) calculateSolarProduction returns
\* EstimatedOutputKW >= 0 and 0 <= OutputPercentage <= 100.
C23_OutputInRange ==
    (computed.done /\ input.kind = "weather")
    => /\ computed.result.EstimatedOutputKW >= 0
       /\ computed.result.OutputPercentage >= 0
       /\ computed.result.OutputPercentage <= 100 * PercentScale

\* C23 witness: the raw formula is negative (a temperature at which the
\* derating is below zero) and the estimate returned is 0
C23_Witness ==
    /\ computed.done /\ input.kind = "weather"
    /\ input.samples[1].GHI > 0
    /\ 1000 + input.panel.TempCoefficientTenths
                 * (input.samples[1].Temperature - STCTemperature) < 0
    /\ computed.result.EstimatedOutputKW = 0
    /\ computed.result.OutputPercentage = 0

\* the sample of the input at another temperature
AtTemperature(temp) == [input.samples[1] EXCEPT !.Temperature = temp]

\* the derating at the input's temperature, in thousandths:
\* 1 + (TempCoefficient / 100) * (temperature - 25)
Derating ==
    1000 + input.panel.TempCoefficientTenths
              * (input.samples[1].Temperature - STCTemperature)

\* the estimate follows the derating formula: it is the estimate at 25 C
\* times the derating, floored at 0 (irradiance not negative)
C24_Formula ==
    (computed.done /\ input.kind = "weather" /\ input.samples[1].GHI >= 0)
    => LET base == calculateSolarProductionOf(AtTemperature(STCTemperature),
                                              input.panel).EstimatedOutputKW
           scaled == (base \div 1000) * Derating
       IN  computed.result.EstimatedOutputKW = IF scaled < 0 THEN 0 ELSE scaled

\* the figures of the claim: coefficient -0.4, capacity 10 kW, inverter
\* efficiency 1.0, GHI 1000 give 10.0 kW at 25 C, 9.6 kW at 35 C, 10.4 kW at 15 C
C24_Figures ==
    (computed.done /\ input.kind = "weather"
       /\ input.panel = [RatedCapacityKW |-> 10, InverterEfficiencyPct |-> 100,
                         TempCoefficientTenths |-> 0 - 4]
       /\ input.samples[1].GHI = STCIrradiance)
    => /\ input.samples[1].Temperature = 25
             => computed.result.EstimatedOutputKW = 10 * KWScale
       /\ input.samples[1].Temperature = 35
             => computed.result.EstimatedOutputKW = 96 * (KWScale \div 10)
       /\ input.samples[1].Temperature = 15
             => computed.result.EstimatedOutputKW = 104 * (KWScale \div 10)

\* with a negative coefficient the estimate at every lower temperature is at
\* least the estimate computed
C24_NonIncreasing ==
    \A temp \in Temperatures :
       temp < input.samples[1].Temperature
       => calculateSolarProductionOf(AtTemperature(temp), input.panel).EstimatedOutputKW
             >= computed.result.EstimatedOutputKW

\* C24 as stated: the temperature derating is 1 + (tempCoefficient / 100) *
\* (temperature - 25), not inverted, with the figures above, and for any
\* negative coefficient and any fixed GHI the output is non-increasing as
\* the temperature rises.
C24_Original ==
    /\ C24_Formula
    /\ C24_Figures
    /\ (computed.done /\ input.kind = "weather"
          /\ input.panel.TempCoefficientTenths < 0)
       => C24_NonIncreasing

\* C24 amended: the same, the output being non-increasing as the temperature
\* rises for any negative coefficient and any fixed GHI that is not negative.
C24_DeratingNotInverted ==
    /\ C24_Formula
    /\ C24_Figures
    /\ (computed.done /\ input.kind = "weather"
          /\ input.panel.TempCoefficientTenths < 0
          /\ input.samples[1].GHI >= 0)
       => C24_NonIncreasing

\* C24 witness: 9.6 kW at 35 C, less than at the lower temperatures
C24_Witness ==
    /\ computed.done /\ input.kind = "weather"
    /\ input.panel = [RatedCapacityKW |-> 10, InverterEfficiencyPct |-> 100,
                      TempCoefficientTenths |-> 0 - 4]
    /\ input.samples[1].GHI = STCIrradiance
    /\ input.samples[1].Temperature = 35
    /\ computed.result.EstimatedOutputKW = 96 * (KWScale \div 10)
    /\ computed.result.EstimatedOutputKW
          < calculateSolarProductionOf(AtTemperature(15), input.panel).EstimatedOutputKW

\* C25: OutputPercentage equals 100 * EstimatedOutputKW / RatedCapacityKW
\* clamped to [0, 100], and EstimatedOutputKW is not capped at the rated
\* capacity: at the reference irradiance without inverter loss, a
\* temperature at which the derating is a gain yields an estimate above the
\* rated capacity together with a percentage of exactly 100.
C25_PercentageClamped ==
    (computed.done /\ input.kind = "weather")
    => LET est == computed.result.EstimatedOutputKW
           rated == input.panel.RatedCapacityKW * KWScale
       IN  /\ est < 0 => computed.result.OutputPercentage = 0
           /\ (est >= 0 /\ est <= rated)
                 => computed.result.OutputPercentage * input.panel.RatedCapacityKW = est
           /\ est > rated => computed.result.OutputPercentage = 100 * PercentScale
           /\ (/\ input.samples[1].GHI = STCIrradiance
               /\ input.panel.InverterEfficiencyPct = 100
               /\ Derating > 1000)
                 => est > rated

\* C25 witness: a cold hour at the reference irradiance under the default
\* coefficient: more than the rated capacity, 100 percent
C25_Witness ==
    /\ computed.done /\ input.kind = "weather"
    /\ input.samples[1].GHI = STCIrradiance
    /\ input.samples[1].Temperature < STCTemperature
    /\ input.panel.TempCoefficientTenths = TempCoefficientTenths
    /\ computed.result.EstimatedOutputKW > input.panel.RatedCapacityKW * KWScale
    /\ computed.result.OutputPercentage = 100 * PercentScale

\* the indices of the input samples in daylight
Daylight == { i \in 1..Len(input.samples) :
                input.samples[i].GHI >= DaylightGHIThreshold }

\* the j-th index of Daylight in increasing order
NthDaylight(j) ==
    CHOOSE i \in Daylight : Cardinality({k \in Daylight : k <= i}) = j

\* C26: filterAnalysisWindow returns exactly the input samples with
\* GHI >= DaylightGHIThreshold (a sample at the threshold is kept), in their
\* original order and with nothing added; applied to its own result it
\* returns that result.
C26_FilterKeepsDaylight ==
    (computed.done /\ input.kind = "hours")
    => /\ Len(computed.result) = Cardinality(Daylight)
       /\ \A j \in 1..Len(computed.result) :
             computed.result[j] = input.samples[NthDaylight(j)]
       /\ filterAnalysisWindow(computed.result, Config(input.testMode))
             = computed.result

\* C26 witness: a sample at the threshold is kept and one just under it,
\* standing between two kept samples, is dropped
C26_Witness ==
    /\ computed.done /\ input.kind = "hours"
    /\ \E j \in 1..Len(computed.result) :
          computed.result[j].GHI = DaylightGHIThreshold
    /\ \E i \in 2..(Len(input.samples) - 1) :
          /\ input.samples[i].GHI = DaylightGHIThreshold - 1
          /\ (i - 1) \in Daylight /\ (i + 1) \in Daylight
    /\ Len(computed.result) < Len(input.samples)

----------------------------------------------------------------------------
(* The forecast fetch *)

\* the attempts made so far: calls of a.httpClient.Do
Attempts == Len(fetch.outcomes)

\* every attempt made so far has failed
AllFailed == \A k \in 1..Attempts : Failed(fetch.outcomes[k])

\* GetForecast has returned a non-nil error
ReturnedError == fetch.pc = "returned" /\ fetch.result \in {"error", "ctx"}

\* at most retryAttempts attempts are made, a successful attempt is the last
\* one and its forecast is what is returned
C27_AttemptsAndFirstSuccess ==
    /\ Attempts <= fetch.retryAttempts
    /\ \A k \in 1..Attempts :
          fetch.outcomes[k] = "ok" =>
             /\ k = Attempts
             /\ fetch.pc = "returned"
             /\ fetch.result = "data"
    /\ fetch.pc = "returned" /\ fetch.result = "data" =>
          /\ Attempts >= 1
          /\ fetch.outcomes[Attempts] = "ok"

\* C27 as stated: GetForecast makes at most APIRetryAttempts attempts, returns
\* the first forecast fetched and parsed without a further attempt, and
\* returns an error only after every one of the APIRetryAttempts attempts has
\* failed
C27_Original ==
    /\ C27_AttemptsAndFirstSuccess
    /\ ReturnedError => Attempts = fetch.retryAttempts /\ AllFailed

\* C27: GetForecast makes at most APIRetryAttempts attempts, returns the first
\* forecast fetched and parsed without a further attempt, and returns an error
\* only after every one of the APIRetryAttempts attempts has failed or, with
\* the context's error, when the context is done at a wait between attempts
C27_RetriesUntilSuccess ==
    /\ C27_AttemptsAndFirstSuccess
    /\ ReturnedError =>
          /\ AllFailed
          /\ \/ fetch.result = "error" /\ Attempts = fetch.retryAttempts
             \/ fetch.result = "ctx" /\ fetch.ctx.done

\* a forecast returned by the third attempt, and an error after three failures
C27_Witness ==
    /\ fetch.pc = "returned"
    /\ fetch.retryAttempts = DefaultAPIRetryAttempts
    /\ Attempts = DefaultAPIRetryAttempts
    /\ fetch.result = "data"
    /\ fetch.outcomes = <<"do", "parse", "ok">>

C27_WitnessError ==
    /\ fetch.pc = "returned"
    /\ fetch.retryAttempts = DefaultAPIRetryAttempts
    /\ fetch.result = "error"
    /\ Attempts = DefaultAPIRetryAttempts
    /\ AllFailed

\* C28: retries use exponential backoff: the wait before retry attempt k+1 is
\* strictly longer than the wait before retry attempt k
C28_WaitsGrow ==
    \A k \in 1..(Len(fetch.waits) - 1) : fetch.waits[k + 1] > fetch.waits[k]

\* the context became done while GetForecast was blocked in the select
CancelledInWait == fetch.ctx.done /\ fetch.ctx.at = "select"

\* C29: GetForecast always terminates: every call returns, after at most
\* retryAttempts attempts, and a call whose context is cancelled while it
\* waits between attempts returns the context's error without making another
\* attempt
C29_TerminatesAndHonoursCancel ==
    /\ <>(fetch.pc = "returned")
    /\ [](Attempts <= fetch.retryAttempts)
    /\ [](CancelledInWait =>
             /\ Attempts = fetch.ctx.tried
             /\ fetch.pc \in {"select", "returned"}
             /\ fetch.pc = "returned" => fetch.result = "ctx")

\* a call cancelled during the wait before its third attempt has returned
C29_Witness ==
    /\ CancelledInWait
    /\ fetch.pc = "returned"
    /\ fetch.result = "ctx"
    /\ Attempts = 2
    /\ fetch.retryAttempts > 2

----------------------------------------------------------------------------
(* The analysis of a forecast *)

\* analyzeForecast has run on the forecast of the input
Analyzed == input.kind = "forecast" /\ computed.done

\* C30: analyzeForecast on a forecast with no sample at or above the daylight
\* GHI threshold returns a not-triggered analysis (AnyTriggered false, no
\* LowProductionHours, ConsecutiveHourCount 0, HasRecovery false) whose
\* AllProductionHours still holds one estimate per forecast hour, in forecast
\* order; in every analysis AnyTriggered equals LowProductionDurationTriggered
C30_EmptyWindowNotTriggered ==
    Analyzed =>
       /\ computed.result.AnyTriggered =
             computed.result.LowProductionDurationTriggered
       /\ Daylight = {} =>
             /\ ~computed.result.AnyTriggered
             /\ computed.result.LowProductionHours = <<>>
             /\ computed.result.ConsecutiveHourCount = 0
             /\ ~computed.result.HasRecovery
             /\ Len(computed.result.AllProductionHours) = Len(input.samples)
             /\ \A i \in 1..Len(input.samples) :
                   computed.result.AllProductionHours[i] =
                      calculateSolarProduction(input.samples[i])

\* a forecast of night hours only has been analyzed
C30_Witness ==
    /\ Analyzed
    /\ Len(input.samples) >= 3
    /\ Daylight = {}
    /\ ~computed.result.AnyTriggered
    /\ Len(computed.result.AllProductionHours) = Len(input.samples)

\* a triggered analysis of a forecast
C30_WitnessTriggered ==
    /\ Analyzed
    /\ computed.result.AnyTriggered
    /\ computed.result.LowProductionDurationTriggered

----------------------------------------------------------------------------
(* The fields the detector writes *)

\* evaluateLowProductionDuration has run on the production samples of the input
Evaluated == input.kind = "production" /\ computed.done

\* the reported run is a stretch a..b of the samples scanned
ReportedStretches ==
    { r \in (1..Len(Scanned)) \X (1..Len(Scanned)) :
        /\ r[1] <= r[2]
        /\ computed.result.LowProductionHours = SubSeq(Scanned, r[1], r[2]) }

\* C31: when the detector does not trigger, every run and recovery field of
\* the analysis keeps its zero value, also when a run shorter than the
\* duration threshold was followed by a qualifying recovery sample; when it
\* triggers, ConsecutiveHourCount is the length of LowProductionHours, every
\* sample of LowProductionHours is below the threshold and they are
\* contiguous in the input, and FirstLowProductionHour and
\* LastLowProductionHour are the hours of its first and last sample
C31_FieldsOfTheRun ==
    Evaluated =>
       /\ ~computed.result.LowProductionDurationTriggered
             => computed.result = EmptyAnalysis
       /\ computed.result.LowProductionDurationTriggered
             => LET run == computed.result.LowProductionHours
                IN  /\ computed.result.ConsecutiveHourCount = Len(run)
                    /\ \A i \in 1..Len(run) :
                          run[i].EstimatedOutputKW
                             < Config(input.testMode).ProductionAlertThreshold
                    /\ ReportedStretches # {}
                    /\ computed.result.FirstLowProductionHour = run[1].Hour
                    /\ computed.result.LastLowProductionHour = run[Len(run)].Hour

\* a run of two samples followed by a sample above the threshold in daylight,
\* under a duration threshold of three: nothing is reported
C31_Witness ==
    /\ Evaluated /\ ~input.testMode
    /\ ~computed.result.LowProductionDurationTriggered
    /\ MaxRunLength = 2
    /\ FollowedByDaylight(FirstLongestRun)
    /\ computed.result = EmptyAnalysis

\* a triggered run in the middle of the input
C31_WitnessTriggered ==
    /\ Evaluated /\ ~input.testMode
    /\ computed.result.LowProductionDurationTriggered
    /\ computed.result.ConsecutiveHourCount = 3
    /\ FirstLongestRun[1] > 1
    /\ FirstLongestRun[2] < Len(Scanned)

----------------------------------------------------------------------------
(* The duration threshold as configured *)

\* analyzeForecast has run under the configured duration threshold
AnalyzedWith == input.kind = "configured" /\ computed.done

\* C38: for every configured value of DurationThresholdHours (0 and negative
\* values included, which the loader does not reject) a triggered analysis
\* has ConsecutiveHourCount >= 1 and a non-empty LowProductionHours list, and
\* a forecast with no daylight sample below the threshold never triggers
C38_TriggeredRunNotEmpty ==
    AnalyzedWith =>
       /\ computed.result.AnyTriggered
             => /\ computed.result.ConsecutiveHourCount >= 1
                /\ computed.result.LowProductionHours # <<>>
       /\ (\A i \in 1..Len(Scanned) : ~Low(i))
             => ~computed.result.AnyTriggered

----------------------------------------------------------------------------
(* The flags of the persisted state *)

\* C32: in every persisted state reached through serialized cycles from the
\* missing file, with any mix of collaborator and file failures,
\* recoveryEmailSent implies alertSent: the recovery notice is never recorded,
\* and SendRecoveryEmail never called, on a state without a sent alert
C32_RecoveryOnlyAfterAlert ==
    /\ file.exists /\ file.RecoveryEmailSent => file.AlertSent
    /\ (last.ran /\ Called(last.out.calls, "SendRecoveryEmail"))
          => /\ last.out.mid.exists
             /\ last.out.mid.AlertSent
             /\ ~last.out.mid.RecoveryEmailSent
    /\ (last.ran /\ Called(last.out.calls, "MarkRecoveryEmailSent"))
          => /\ CalledBefore(last.out.calls, "SendRecoveryEmail",
                             "MarkRecoveryEmailSent")
             /\ Called(last.out.calls, "SendRecoveryEmail")
             /\ last.out.mid.AlertSent

\* the recovery notice of an alert has been sent and recorded
C32_Witness ==
    /\ last.ran
    /\ Called(last.out.calls, "MarkRecoveryEmailSent")
    /\ file.exists /\ file.RecoveryEmailSent /\ file.AlertSent

----------------------------------------------------------------------------
(* A failed daily reset *)

\* cycle l ran on a later day than the alert recorded in the state it found,
\* the notice of recovery not yet recorded, and its ResetIfNewDay failed; the
\* forecast was fetched and the state could be read afterwards
StaleAfterFailedReset(l) ==
    /\ l.ran
    /\ l.out.resetErr
    /\ Stale(l.pre, l.at)
    /\ l.pre.AlertSent
    /\ ~l.pre.RecoveryEmailSent
    /\ l.out.fetched
    /\ "check-read" \notin l.out.faults

\* a failure of ResetIfNewDay is not the error of the cycle, which goes on to
\* fetch the forecast with the state as it was
C33_Continues ==
    (last.ran /\ last.out.resetErr)
       => /\ last.out.mid = last.pre
          /\ Called(last.out.calls, "GetForecast")
          /\ last.out.err # "reset"

\* C33 as stated: a failure of ResetIfNewDay does not abort the cycle, which
\* continues with the un-reset state: on a new day with stale alertSent=true
\* and recoveryEmailSent=false a not-triggered cycle still calls
\* SendRecoveryEmail and a triggered cycle still calls SendAlert
C33_Original ==
    /\ C33_Continues
    /\ StaleAfterFailedReset(last)
          => IF last.out.triggered
             THEN Called(last.out.calls, "SendAlert")
             ELSE Called(last.out.calls, "SendRecoveryEmail")

\* C33: a failure of ResetIfNewDay does not abort the cycle, which continues
\* with the un-reset state: on a new day with stale alertSent=true and
\* recoveryEmailSent=false a not-triggered cycle still calls SendRecoveryEmail
\* and a triggered cycle that passes the daytime check still calls SendAlert
C33_FailedResetIsIgnored ==
    /\ C33_Continues
    /\ StaleAfterFailedReset(last)
          => IF last.out.triggered
             THEN InWindow(last) => Called(last.out.calls, "SendAlert")
             ELSE Called(last.out.calls, "SendRecoveryEmail")

\* the notice of recovery of yesterday's alert, sent after a failed reset
C33_Witness ==
    /\ StaleAfterFailedReset(last)
    /\ ~last.out.triggered
    /\ Called(last.out.calls, "SendRecoveryEmail")

\* a second alert for a state that still says alertSent, after a failed reset
C33_WitnessAlert ==
    /\ StaleAfterFailedReset(last)
    /\ last.out.triggered
    /\ Called(last.out.calls, "SendAlert")

----------------------------------------------------------------------------
(* The extended search for a recovery *)

\* every sample scanned is in daylight: the input is a filtered window
AllDaylight ==
    \A i \in 1..Len(Scanned) :
       Scanned[i].GHI >= Config(input.testMode).DaylightGHIThreshold

\* the configuration analyzeForecast ran under
AnalysisConfig ==
    IF input.kind = "configured" THEN ConfigWith(input.duration)
    ELSE Config(input.testMode)

\* analyzeForecast has run under a duration threshold of at least one hour
AnalyzedFromOne ==
    /\ computed.done
    /\ input.kind \in {"forecast", "configured"}
    /\ AnalysisConfig.DurationThresholdHours >= 1

\* what the detector alone reports on the window of the forecast
Detected ==
    evaluateLowProductionDuration(Scanned, EmptyAnalysis, AnalysisConfig)

\* C34: on daylight-filtered input with strictly increasing timestamps and
\* DurationThresholdHours >= 1 the detector reports triggered with
\* HasRecovery = FALSE only when the reported run ends at the last input
\* sample; the extended search of analyzeForecast, made over the same
\* filtered list, then finds no recovery and HasRecovery stays FALSE
C34_NoRecoveryOnlyAtTheEnd ==
    /\ (Evaluated /\ AllDaylight
          /\ computed.result.LowProductionDurationTriggered
          /\ ~computed.result.HasRecovery)
          => computed.result.LastLowProductionHour = Scanned[Len(Scanned)].Hour
    /\ (AnalyzedFromOne /\ computed.result.AnyTriggered)
          => /\ computed.result.HasRecovery = Detected.HasRecovery
             /\ ~computed.result.HasRecovery
                   => computed.result.LastLowProductionHour
                         = Scanned[Len(Scanned)].Hour

\* a forecast whose low run lasts until its last daylight hour, with high
\* hours before it and night after it: triggered, no recovery
C34_Witness ==
    /\ AnalyzedFromOne /\ input.kind = "forecast"
    /\ computed.result.AnyTriggered
    /\ ~computed.result.HasRecovery
    /\ Len(Scanned) > computed.result.ConsecutiveHourCount
    /\ Len(input.samples) > Len(Scanned)

\* the detector alone: a run at the end of the input, an earlier shorter run
\* having had its recovery
C34_WitnessDetector ==
    /\ Evaluated /\ AllDaylight
    /\ computed.result.LowProductionDurationTriggered
    /\ ~computed.result.HasRecovery
    /\ Cardinality(Runs) >= 2

----------------------------------------------------------------------------
(* The recovery reported *)

\* C35: whenever an analysis has HasRecovery = TRUE (the timestamps of the
\* input strictly increasing), RecoveryHour is strictly after
\* LastLowProductionHour, the sample at RecoveryHour has output >= threshold
\* and GHI >= daylight threshold, and HoursUntilRecovery is the whole hours
\* from FirstLowProductionHour to RecoveryHour and is >= ConsecutiveHourCount
C35_RecoveryIsConsistent ==
    (computed.done /\ computed.result.HasRecovery)
    => /\ computed.result.RecoveryHour > computed.result.LastLowProductionHour
       /\ \E i \in 1..Len(Scanned) :
             /\ Scanned[i].Hour = computed.result.RecoveryHour
             /\ Scanned[i].EstimatedOutputKW
                   >= Config(input.testMode).ProductionAlertThreshold
             /\ Scanned[i].GHI >= Config(input.testMode).DaylightGHIThreshold
       /\ computed.result.HoursUntilRecovery =
             (computed.result.RecoveryHour
                - computed.result.FirstLowProductionHour) \div TicksPerHour
       /\ computed.result.HoursUntilRecovery
             >= computed.result.ConsecutiveHourCount

----------------------------------------------------------------------------
(* The push notification *)

\* C36: a push notification is attempted only after SendAlert has succeeded
\* and never in the recovery path; a failure of the chart generation or of
\* SendNotification does not change the outcome of the cycle: MarkAlertSent
\* is still called and CheckAndAlert returns what MarkAlertSent returns,
\* success when the state is recorded
C36_PushNeverFatal ==
    last.ran =>
       /\ Pushed(last.out) =>
             /\ Called(last.out.calls, "SendAlert")
             /\ "mail" \notin last.out.faults
             /\ CalledBefore(last.out.calls, "SendAlert", "GenerateChartImage")
             /\ CalledBefore(last.out.calls, "SendAlert", "SendNotification")
             /\ ~Called(last.out.calls, "ShouldSendRecoveryEmail")
             /\ ~Called(last.out.calls, "SendRecoveryEmail")
       /\ last.out.push \in {"chartfail", "sendfail"} =>
             /\ Called(last.out.calls, "MarkAlertSent")
             /\ CalledBefore(last.out.calls, "SendNotification", "MarkAlertSent")
             /\ IF "mark-write" \in last.out.faults
                THEN last.out.err = "mark"
                ELSE last.out.err = "nil" /\ SentToday(file, last.at)

\* a cycle whose SendNotification failed has recorded the alert and succeeded
C36_Witness ==
    /\ last.ran
    /\ last.out.push = "sendfail"
    /\ Called(last.out.calls, "MarkAlertSent")
    /\ last.out.err = "nil"
    /\ SentToday(file, last.at)

\* a cycle whose chart could not be generated
C36_WitnessChart ==
    /\ last.ran
    /\ last.out.push = "chartfail"
    /\ Called(last.out.calls, "SendNotification")
    /\ last.out.err = "nil"

----------------------------------------------------------------------------
(* The operations of the state file, one call at a time *)

\* the dates a state file can carry: 0 is the zero date, MaxDate lies after
\* every day the clock reaches
MaxDate == 3

StoreOuts == {"ok", "readfail", "writefail"}

\* the state files the adapter can find: none, or any content of stateData
StoredFiles ==
    {NoFile} \cup
    { [ exists |-> TRUE, LastAlertDate |-> d, AlertSent |-> a,
        AlertRecovered |-> r, RecoveryEmailSent |-> e ] :
      d \in 0..MaxDate, a \in BOOLEAN, r \in BOOLEAN, e \in BOOLEAN }

InitStore ==
    /\ file \in StoredFiles
    /\ now = [day |-> 1, hour |-> 0]
    /\ last = NoCycle
    /\ prev = "none"
    /\ alertsToday = 0
    /\ recoveriesToday = 0
    /\ storeFailedToday = FALSE
    /\ pending = 0
    /\ deferred = FALSE
    /\ proc = [p \in Processes |-> NoProcess]
    /\ race = NoRace
    /\ input = NoInput
    /\ computed = NoAnalysis
    /\ fetch = NoFetch

\* what one call of an operation of the adapter did: the file before and
\* after it, the error it returned and the faults it met
StoreCall(name, r, err) ==
    [ NoCycle EXCEPT !.ran = TRUE, !.at = now, !.pre = file,
                     !.out.file = r.file, !.out.mid = r.file,
                     !.out.calls = <<name>>, !.out.err = err,
                     !.out.faults = r.faults ]

CallMarkAlertSent ==
    /\ \E out \in StoreOuts :
         \E r \in {MarkAlertSent(file, now, out)} :
             /\ file' = r.file
             /\ last' = StoreCall("MarkAlertSent", r, IF r.err THEN "mark" ELSE "nil")
    /\ UNCHANGED <<now, prev, alertsToday, recoveriesToday, storeFailedToday,
                   pending, deferred, raceVars, detectVars, fetchVars>>

CallMarkRecoveryEmailSent ==
    /\ \E out \in StoreOuts :
         \E r \in {MarkRecoveryEmailSent(file, out)} :
             /\ file' = r.file
             /\ last' = StoreCall("MarkRecoveryEmailSent", r,
                                  IF r.err THEN "mark" ELSE "nil")
    /\ UNCHANGED <<now, prev, alertsToday, recoveriesToday, storeFailedToday,
                   pending, deferred, raceVars, detectVars, fetchVars>>


CallResetIfNewDay ==
    /\ \E out \in StoreOuts :
         \E r \in {ResetIfNewDay(file, now, out)} :
             /\ file' = r.file
             /\ last' = [ StoreCall("ResetIfNewDay", r,
                                    IF r.err THEN "reset" ELSE "nil")
                          EXCEPT !.out.resetErr = r.err ]
    /\ UNCHANGED <<now, prev, alertsToday, recoveriesToday, storeFailedToday,
                   pending, deferred, raceVars, detectVars, fetchVars>>

NextStore ==
    CallMarkAlertSent \/ CallMarkRecoveryEmailSent \/ CallResetIfNewDay \/ Tick

SpecStore == InitStore /\ [][NextStore]_vars

\* the call of the named operation that the state records
Did(name) == last.ran /\ last.out.calls = <<name>>

\* the date is today, in the future, or absent, seen from time t
NothingToReset(f, t) ==
    ~f.exists \/ f.LastAlertDate = FormatDate(ZeroTime) \/ f.LastAlertDate >= t.day

\* MarkRecoveryEmailSent that saved: the flag is set, the rest is as it was
C37_RecoveryMarkKeepsTheRest ==
    (Did("MarkRecoveryEmailSent") /\ last.out.err = "nil") =>
        /\ file.exists /\ file.RecoveryEmailSent
        /\ file.LastAlertDate = last.pre.LastAlertDate
        /\ file.AlertSent = last.pre.AlertSent
        /\ file.AlertRecovered = last.pre.AlertRecovered

\* an operation that returned an error left the file as it was
C37_FailedCallWritesNothing ==
    (last.ran /\ last.out.err # "nil") => file = last.pre

\* ResetIfNewDay with nothing to reset writes nothing and returns false;
\* after a call that returned no error, another call on the same day is a
\* no-op that returns false
C37_ResetOnlyOnNewDay ==
    /\ (Did("ResetIfNewDay") /\ NothingToReset(last.pre, last.at)) =>
           file = last.pre
    /\ \A out \in StoreOuts :
          LET r == ResetIfNewDay(file, now, out)
          IN  /\ NothingToReset(file, now) => (r.file = file /\ ~r.reset)
              /\ (Did("ResetIfNewDay") /\ last.out.err = "nil"
                    /\ last.at.day = now.day) =>
                     (r.file = file /\ ~r.reset)

C37_WitnessRecovery ==
    /\ Did("MarkRecoveryEmailSent") /\ last.out.err = "nil"
    /\ last.pre.exists /\ ~last.pre.RecoveryEmailSent
    /\ last.pre.AlertSent /\ last.pre.AlertRecovered
    /\ last.pre.LastAlertDate # FormatDate(ZeroTime)
    /\ file.RecoveryEmailSent

\* ResetIfNewDay reset the state of an earlier day, and the day goes on
C37_WitnessReset ==
    /\ Did("ResetIfNewDay") /\ last.out.err = "nil"
    /\ last.pre.exists /\ last.pre.AlertSent
    /\ last.pre.LastAlertDate < last.at.day
    /\ last.pre.LastAlertDate # FormatDate(ZeroTime)
    /\ file # last.pre
    /\ now.day = last.at.day /\ now.hour > last.at.hour

----------------------------------------------------------------------------
(* The conditions-recovered flag *)

\* C39: the persisted conditions-recovered flag (AlertRecovered) is false in
\* every reachable persisted state: no operation of the cycle or of the file
\* state adapter sets it
C39_NeverRecovered ==
    /\ file.exists => ~file.AlertRecovered
    /\ last.ran => (~last.pre.AlertRecovered /\ ~last.out.mid.AlertRecovered
                      /\ ~last.out.file.AlertRecovered)

\* the recovery notice of an alert has been recorded, the strongest record
\* of a recovery the program keeps, and the flag is still false
C39_Witness ==
    /\ last.ran
    /\ Called(last.out.calls, "MarkRecoveryEmailSent")
    /\ last.out.err = "nil"
    /\ file.exists /\ file.AlertSent /\ file.RecoveryEmailSent
    /\ ~file.AlertRecovered

====
